---- MODULE Spec2Model ----
(***************************************************************************)
(* WebTags native host: the bookmark document model (storage.rs), the      *)
(* encrypted storage layer (encryption.rs, storage.rs), the git working    *)
(* tree (git.rs) and the per-request session handlers (main.rs).           *)
(*                                                                         *)
(* Conventions                                                             *)
(*   Option<T>   a sequence of length <= 1: None = <<>>, Some(x) = <<x>>   *)
(*   Result<T>   [ok |-> TRUE, val |-> v]  or  [ok |-> FALSE, err |-> e]    *)
(*   String      where only its length and a few characters matter, a      *)
(*               record of what the code inspects: its length in bytes     *)
(*               (Rust's String::len), its length in characters, and the   *)
(*               properties the code tests.                                *)
(***************************************************************************)
EXTENDS Integers, Sequences, FiniteSets, TLC

VARIABLES
    doc,        \* document spec: the BookmarksData value under test
    verdict,    \* document spec: Option of the last validate() result on doc
    ret,        \* Option of the library call that just returned: its name, arguments, result
    macos,      \* whether the build is for macOS (cfg(target_os = "macos"))
    keychain,   \* the Keychain item com.webtags.encryption/master-key: Option of its password
    sfs,        \* storage spec: the files of the directory written to
    spc,        \* storage spec: where write_to_file_with_encryption stands
    sjob,       \* storage spec: Option of the write under way or last started
    slast,      \* storage spec: Option of the call that just returned, with its result
    dirs,       \* session: the directories that exist, as canonical paths
    wt,         \* session: the git working trees, by the directory they live in
    remote,     \* session: Option of the history of the repository behind the clone URL
    repo_path,  \* session: HostConfig.repo_path
    encryption_enabled,  \* session: HostConfig.encryption_enabled
    resp,       \* session: the last request with the response sent for it
    encSource,  \* session: Option of the document EnableEncryption encrypted in place, and where
    stdin,      \* host: the frames not yet read from standard input
    stdout,     \* host: the responses written to standard output, in order
    pc,         \* host: where the main loop stands
    pending     \* host: Option of the message read and not yet handled, or of the response due

docVars == <<doc, verdict, ret>>
envVars == <<macos, keychain>>
storageVars == <<sfs, spc, sjob, slast>>
diskVars == <<dirs, wt, remote>>
configVars == <<repo_path, encryption_enabled>>
sessionVars == <<dirs, wt, remote, repo_path, encryption_enabled, resp, encSource>>
hostVars == <<stdin, stdout, pc, pending>>
vars == <<doc, verdict, ret, macos, keychain, sfs, spc, sjob, slast,
          dirs, wt, remote, repo_path, encryption_enabled, resp, encSource,
          stdin, stdout, pc, pending>>

\* A value computed once and used under the name the source gives it.
Let(v, In(_)) == In(v)

None == <<>>
Some(x) == <<x>>
IsSome(o) == Len(o) = 1
Unwrap(o) == o[1]

Ok(v) == [ok |-> TRUE, val |-> v]
Err(e) == [ok |-> FALSE, err |-> e]
Unit == "unit"

(***************************************************************************)
(* Bounds of the document specification.                                   *)
(***************************************************************************)
MaxRes == 2      \* resources of a document, primary and included together
MaxKey == 2      \* distinct keys OsRng can yield
MaxNonce == 1    \* distinct nonces OsRng can yield
MaxCommits == 1   \* commits made in one working tree
MaxTags == 3      \* resources of a document of the tag specification
MaxFrames == 2    \* frames on standard input in the loop specification
MaxHistory == 2   \* commits made by Write in one history of the Write and Pull specifications

(***************************************************************************)
(* Limits the validation code compares against.                            *)
(***************************************************************************)
MaxUrlLen == 2048
MaxTitleLen == 500
MaxTagNameLen == 100

(***************************************************************************)
(* String values.  A URL carries the outcome of Url::parse on it: None     *)
(* when it does not parse as an absolute URL, Some(scheme) otherwise.      *)
(***************************************************************************)
UrlHttps    == [bytes |-> 21,   chars |-> 21,   parse |-> Some("https")]
UrlHttp     == [bytes |-> 18,   chars |-> 18,   parse |-> Some("http")]
UrlFtp      == [bytes |-> 17,   chars |-> 17,   parse |-> Some("ftp")]
UrlRelative == [bytes |-> 9,    chars |-> 9,    parse |-> None]
UrlEmpty    == [bytes |-> 0,    chars |-> 0,    parse |-> None]
UrlMax      == [bytes |-> 2048, chars |-> 2048, parse |-> Some("https")]
UrlTooLong  == [bytes |-> 2049, chars |-> 2049, parse |-> Some("https")]
UrlWide     == [bytes |-> 2100, chars |-> 2040, parse |-> Some("https")]

TitleOk      == [bytes |-> 25,  chars |-> 25]
TitleMax     == [bytes |-> 500, chars |-> 500]
TitleTooLong == [bytes |-> 501, chars |-> 501]

NameOk      == [text |-> "rust", bytes |-> 4,   chars |-> 4,   lt |-> FALSE, gt |-> FALSE]
NameEmpty   == [text |-> "",     bytes |-> 0,   chars |-> 0,   lt |-> FALSE, gt |-> FALSE]
NameMax     == [text |-> "m100", bytes |-> 100, chars |-> 100, lt |-> FALSE, gt |-> FALSE]
NameTooLong == [text |-> "l101", bytes |-> 101, chars |-> 101, lt |-> FALSE, gt |-> FALSE]
NameLt      == [text |-> "<b",   bytes |-> 2,   chars |-> 2,   lt |-> TRUE,  gt |-> FALSE]
NameGt      == [text |-> "b>",   bytes |-> 2,   chars |-> 2,   lt |-> FALSE, gt |-> TRUE]

Created == "2024-01-15T10:30:00Z"

(***************************************************************************)
(* Resource: the two variants of the enum.                                 *)
(***************************************************************************)
Bookmark(id, url, title, rels) ==
    [type |-> "bookmark", id |-> id,
     attributes |-> [url |-> url, title |-> title, created |-> Created],
     relationships |-> rels]

Tag(id, name, rels) ==
    [type |-> "tag", id |-> id,
     attributes |-> [name |-> name],
     relationships |-> rels]

ResourceIdentifier(t, id) == [type |-> t, id |-> id]

\* BookmarkRelationships { tags: Some(RelationshipData { data }) }
TaggedWith(ids) == Some([tags |-> Some([data |-> ids])])

\* TagRelationships { parent: Some(ParentRelationship { data: Some(id) }) }
ChildOf(id) == Some([parent |-> Some([data |-> Some(ResourceIdentifier("tag", id))])])

IsBookmark(r) == r.type = "bookmark"
IsTag(r) == r.type = "tag"

BookmarksData(version, data, included) ==
    [jsonapi |-> [version |-> version], data |-> data, included |-> included]

\* BookmarksData::new
NewBookmarksData == BookmarksData("1.1", <<>>, None)

\* The included list, empty when absent.
IncludedList(d) == IF IsSome(d.included) THEN Unwrap(d.included) ELSE <<>>

\* Every resource of a document, primary list first.
AllResources(d) == d.data \o IncludedList(d)

TotalRes(d) == Len(d.data) + Len(IncludedList(d))

(***************************************************************************)
(* validate_bookmark_url                                                   *)
(***************************************************************************)
validate_bookmark_url(url) ==
    IF url.bytes = 0 THEN Err("URL cannot be empty")
    ELSE IF url.bytes > MaxUrlLen THEN Err("URL too long")
    ELSE IF ~IsSome(url.parse) THEN Err("Invalid URL format")
    ELSE IF Unwrap(url.parse) \in {"http", "https"} THEN Ok(Unit)
    ELSE Err("Unsafe URL scheme")

(***************************************************************************)
(* BookmarksData::validate.  The field checks of one resource of the       *)
(* primary list, then the two loops sharing one set of seen ids.           *)
(***************************************************************************)
CheckFields(r) ==
    IF IsBookmark(r)
    THEN LET u == validate_bookmark_url(r.attributes.url)
         IN  IF ~u.ok THEN u
             ELSE IF r.attributes.title.bytes > MaxTitleLen
                  THEN Err("Bookmark title too long")
                  ELSE Ok(Unit)
    ELSE IF r.attributes.name.bytes = 0 \/ r.attributes.name.bytes > MaxTagNameLen
         THEN Err("Tag name must be between 1-100 characters")
         ELSE IF r.attributes.name.lt \/ r.attributes.name.gt
              THEN Err("Tag name cannot contain HTML characters")
              ELSE Ok(Unit)

\* The checks the loop over the included list applies to a resource: none.
CheckIncludedFields(r) == Ok(Unit)

\* Mutation: the loop over the included list starts from an empty set of ids.
IncludedSeenIdsFresh(ids) == {}

\* The set of seen ids the loop over the included list starts from.
IncludedSeenIds(ids) == ids

\* Mutation: the loop looks at a resource's identifier before its fields.
RECURSIVE ScanPrimaryIdFirst(_, _, _)
ScanPrimaryIdFirst(list, i, ids) ==
    IF i > Len(list) THEN Ok(ids)
    ELSE IF list[i].id \in ids THEN Err("Duplicate resource ID")
    ELSE LET f == CheckFields(list[i])
         IN  IF ~f.ok THEN f
             ELSE ScanPrimaryIdFirst(list, i + 1, ids \cup {list[i].id})

RECURSIVE ScanPrimary(_, _, _)
ScanPrimary(list, i, ids) ==
    IF i > Len(list) THEN Ok(ids)
    ELSE LET f == CheckFields(list[i])
         IN  IF ~f.ok THEN f
             ELSE IF list[i].id \in ids THEN Err("Duplicate resource ID")
             ELSE ScanPrimary(list, i + 1, ids \cup {list[i].id})

RECURSIVE ScanIncluded(_, _, _)
ScanIncluded(list, i, ids) ==
    IF i > Len(list) THEN Ok(ids)
    ELSE LET f == CheckIncludedFields(list[i])
         IN  IF ~f.ok THEN f
             ELSE IF list[i].id \in ids THEN Err("Duplicate resource ID")
             ELSE ScanIncluded(list, i + 1, ids \cup {list[i].id})

Validate(d) ==
    IF d.jsonapi.version # "1.1" THEN Err("Invalid JSON API version")
    ELSE Let(ScanPrimary(d.data, 1, {}), LAMBDA p :
             IF ~p.ok THEN p
             ELSE IF ~IsSome(d.included) THEN Ok(Unit)
             ELSE Let(ScanIncluded(Unwrap(d.included), 1, IncludedSeenIds(p.val)),
                      LAMBDA q : IF ~q.ok THEN q ELSE Ok(Unit)))

(***************************************************************************)
(* add_bookmark / add_tag                                                  *)
(***************************************************************************)
add_bookmark(d, r) ==
    IF IsBookmark(r)
    THEN Ok([d EXCEPT !.data = Append(@, r)])
    ELSE Err("Expected bookmark resource")

\* Mutation: add_tag appends the tag to the primary list.
AddTagToData(d, r) ==
    IF IsTag(r)
    THEN Ok([d EXCEPT !.data = Append(@, r)])
    ELSE Err("Expected tag resource")

add_tag(d, r) ==
    IF IsTag(r)
    THEN Ok([d EXCEPT !.included = Some(Append(IncludedList(d), r))])
    ELSE Err("Expected tag resource")

\* get_bookmarks: the bookmarks of the primary list
get_bookmarks(d) == SelectSeq(d.data, IsBookmark)

\* get_tags: the tags of the primary list, then those of the included list
get_tags(d) == SelectSeq(d.data, IsTag) \o SelectSeq(IncludedList(d), IsTag)

(***************************************************************************)
(* get_tag_hierarchy / get_tag_breadcrumb.  A HashMap is a function from   *)
(* its keys; collecting pairs into one keeps the last value of a key.      *)
(***************************************************************************)
\* The id a tag names as its parent: relationships, parent and data all Some.
ParentOf(t) ==
    IF IsSome(t.relationships)
       /\ IsSome(Unwrap(t.relationships).parent)
       /\ IsSome(Unwrap(Unwrap(t.relationships).parent).data)
    THEN Some(Unwrap(Unwrap(Unwrap(t.relationships).parent).data).id)
    ELSE None

\* Mutation: a child is put in front of the children already collected.
EntryPushFront(h, k, v) ==
    IF k \in DOMAIN h THEN [h EXCEPT ![k] = <<v>> \o @] ELSE (k :> <<v>>) @@ h

\* hierarchy.entry(k).or_default().push(v)
EntryPush(h, k, v) ==
    IF k \in DOMAIN h THEN [h EXCEPT ![k] = Append(@, v)] ELSE (k :> <<v>>) @@ h

RECURSIVE HierarchyLoop(_, _, _)
HierarchyLoop(tags, i, hierarchy) ==
    IF i > Len(tags) THEN hierarchy
    ELSE IF IsSome(ParentOf(tags[i]))
         THEN HierarchyLoop(tags, i + 1,
                            EntryPush(hierarchy, Unwrap(ParentOf(tags[i])), tags[i].id))
         ELSE HierarchyLoop(tags, i + 1, hierarchy)

get_tag_hierarchy(d) == HierarchyLoop(get_tags(d), 1, <<>>)

\* tags_by_id: collect() of (id, tag) pairs, a later tag replacing an
\* earlier one of the same id.
TagsById(tags) ==
    [id \in { tags[i].id : i \in DOMAIN tags } |->
        tags[CHOOSE i \in DOMAIN tags :
                /\ tags[i].id = id
                /\ \A j \in DOMAIN tags : tags[j].id = id => j <= i]]

\* Mutation: the name is added at the end of the path.
PushBack(breadcrumb, name) == Append(breadcrumb, name)

\* breadcrumb.insert(0, name)
Insert0(breadcrumb, name) == <<name>> \o breadcrumb

RECURSIVE BreadcrumbLoop(_, _, _, _)
BreadcrumbLoop(tags_by_id, current_id, visited, breadcrumb) ==
    IF current_id \in visited THEN breadcrumb
    ELSE IF current_id \notin DOMAIN tags_by_id THEN breadcrumb
    ELSE IF IsSome(ParentOf(tags_by_id[current_id]))
         THEN BreadcrumbLoop(tags_by_id,
                             Unwrap(ParentOf(tags_by_id[current_id])),
                             visited \cup {current_id},
                             Insert0(breadcrumb, tags_by_id[current_id].attributes.name))
         ELSE Insert0(breadcrumb, tags_by_id[current_id].attributes.name)

\* Mutation: the loop adds the name before it tests whether the id was
\* visited, so the tag a cycle closes on is named twice.
RECURSIVE BreadcrumbLoopLateCheck(_, _, _, _)
BreadcrumbLoopLateCheck(tags_by_id, current_id, visited, breadcrumb) ==
    IF current_id \notin DOMAIN tags_by_id THEN breadcrumb
    ELSE IF current_id \in visited
         THEN Insert0(breadcrumb, tags_by_id[current_id].attributes.name)
    ELSE IF IsSome(ParentOf(tags_by_id[current_id]))
         THEN BreadcrumbLoopLateCheck(tags_by_id,
                             Unwrap(ParentOf(tags_by_id[current_id])),
                             visited \cup {current_id},
                             Insert0(breadcrumb, tags_by_id[current_id].attributes.name))
         ELSE Insert0(breadcrumb, tags_by_id[current_id].attributes.name)

BreadcrumbRevisits(d, tag_id) ==
    BreadcrumbLoopLateCheck(TagsById(get_tags(d)), tag_id, {}, <<>>)

get_tag_breadcrumb(d, tag_id) ==
    BreadcrumbLoop(TagsById(get_tags(d)), tag_id, {}, <<>>)

(***************************************************************************)
(* JSON values, as serde_json sees them.  An object is a function from its *)
(* keys to values, so a key can be absent.                                 *)
(***************************************************************************)
JNull == [j |-> "null"]
JStr(s) == [j |-> "str", v |-> s]
JBool(b) == [j |-> "bool", v |-> b]
JArr(seq) == [j |-> "arr", v |-> seq]
JObj(f) == [j |-> "obj", v |-> f]
NoFields == <<>>

IsObj(x) == x.j = "obj"
Has(x, k) == IsObj(x) /\ k \in DOMAIN x.v
HasStr(x, k) == Has(x, k) /\ x.v[k].j = "str"
\* An Option field: absent or null reads as None.
Absent(x, k) == ~Has(x, k) \/ x.v[k].j = "null"

(***************************************************************************)
(* Serialize for BookmarksData (the derive attributes of storage.rs):      *)
(* Option fields marked skip_serializing_if are left out when None,        *)
(* ParentRelationship.data is written as null when None.                   *)
(***************************************************************************)
SerIdentifier(ri) == JObj([type |-> JStr(ri.type), id |-> JStr(ri.id)])

\* A Vec<ResourceIdentifier> element by element, in order.
RECURSIVE SerIdentifiers(_)
SerIdentifiers(ris) ==
    IF ris = <<>> THEN <<>>
    ELSE <<SerIdentifier(Head(ris))>> \o SerIdentifiers(Tail(ris))

SerBookmarkRels(rels) ==
    JObj(IF IsSome(rels.tags)
         THEN [tags |-> JObj([data |-> JArr(SerIdentifiers(Unwrap(rels.tags).data))])]
         ELSE NoFields)

SerTagRels(rels) ==
    JObj(IF IsSome(rels.parent)
         THEN [parent |-> JObj([data |->
                  IF IsSome(Unwrap(rels.parent).data)
                  THEN SerIdentifier(Unwrap(Unwrap(rels.parent).data))
                  ELSE JNull])]
         ELSE NoFields)

SerAttributes(r) ==
    IF IsBookmark(r)
    THEN JObj([url |-> JStr(r.attributes.url), title |-> JStr(r.attributes.title),
               created |-> JStr(r.attributes.created)])
    ELSE JObj([name |-> JStr(r.attributes.name)])

SerResource(r) ==
    JObj([type |-> JStr(r.type), id |-> JStr(r.id), attributes |-> SerAttributes(r)]
         @@ (IF IsSome(r.relationships)
             THEN "relationships" :>
                    (IF IsBookmark(r) THEN SerBookmarkRels(Unwrap(r.relationships))
                                      ELSE SerTagRels(Unwrap(r.relationships)))
             ELSE NoFields))

\* A Vec<Resource> element by element, in order.
RECURSIVE SerResources(_)
SerResources(list) ==
    IF list = <<>> THEN <<>>
    ELSE <<SerResource(Head(list))>> \o SerResources(Tail(list))

SerList(list) == JArr(SerResources(list))

\* Mutation: an empty included list is left out like an absent one.
SerializeSkipEmptyIncluded(d) ==
    JObj([jsonapi |-> JObj([version |-> JStr(d.jsonapi.version)]),
          data |-> SerList(d.data)]
         @@ (IF IsSome(d.included) /\ Unwrap(d.included) # <<>>
             THEN "included" :> SerList(Unwrap(d.included))
             ELSE NoFields))

Serialize(d) ==
    JObj([jsonapi |-> JObj([version |-> JStr(d.jsonapi.version)]),
          data |-> SerList(d.data)]
         @@ (IF IsSome(d.included)
             THEN "included" :> SerList(Unwrap(d.included))
             ELSE NoFields))

(***************************************************************************)
(* Deserialize for BookmarksData: required fields must be present and of   *)
(* the right JSON type, Option fields may be absent or null, unknown       *)
(* fields are ignored.                                                     *)
(***************************************************************************)
ParseError == Err("parse error")

DeIdentifier(x) ==
    IF HasStr(x, "type") /\ HasStr(x, "id")
    THEN Ok(ResourceIdentifier(x.v["type"].v, x.v["id"].v))
    ELSE ParseError

\* A JSON array decoded element by element with de(_).
DeArray(x, de(_)) ==
    IF x.j # "arr" THEN ParseError
    ELSE IF \A i \in 1..Len(x.v) : de(x.v[i]).ok
         THEN Ok(LET decoded[n \in 0..Len(x.v)] ==
                         IF n = 0 THEN <<>> ELSE Append(decoded[n - 1], de(x.v[n]).val)
                 IN  decoded[Len(x.v)])
         ELSE ParseError

DeBookmarkRels(x) ==
    IF ~IsObj(x) THEN ParseError
    ELSE IF Absent(x, "tags") THEN Ok([tags |-> None])
    ELSE IF ~Has(x.v["tags"], "data") THEN ParseError
    ELSE Let(DeArray(x.v["tags"].v["data"], DeIdentifier), LAMBDA ids :
             IF ids.ok THEN Ok([tags |-> Some([data |-> ids.val])]) ELSE ParseError)

DeTagRels(x) ==
    IF ~IsObj(x) THEN ParseError
    ELSE IF Absent(x, "parent") THEN Ok([parent |-> None])
    ELSE IF ~IsObj(x.v["parent"]) THEN ParseError
    ELSE IF Absent(x.v["parent"], "data") THEN Ok([parent |-> Some([data |-> None])])
    ELSE Let(DeIdentifier(x.v["parent"].v["data"]), LAMBDA ri :
             IF ri.ok THEN Ok([parent |-> Some([data |-> Some(ri.val)])]) ELSE ParseError)

\* The relationships field of a resource: an Option, decoded by its kind.
DeRelationships(x) ==
    IF Absent(x, "relationships") THEN Ok(None)
    ELSE Let(IF x.v["type"].v = "bookmark"
             THEN DeBookmarkRels(x.v["relationships"])
             ELSE DeTagRels(x.v["relationships"]),
             LAMBDA r : IF r.ok THEN Ok(Some(r.val)) ELSE ParseError)

DeResource(x) ==
    IF ~(HasStr(x, "type") /\ HasStr(x, "id") /\ Has(x, "attributes")) THEN ParseError
    ELSE Let(x.v["attributes"], LAMBDA a : Let(DeRelationships(x), LAMBDA rels :
             IF ~rels.ok THEN ParseError
             ELSE IF x.v["type"].v = "bookmark"
                  THEN IF HasStr(a, "url") /\ HasStr(a, "title") /\ HasStr(a, "created")
                       THEN Ok([type |-> "bookmark", id |-> x.v["id"].v,
                                attributes |-> [url |-> a.v["url"].v,
                                                title |-> a.v["title"].v,
                                                created |-> a.v["created"].v],
                                relationships |-> rels.val])
                       ELSE ParseError
             ELSE IF x.v["type"].v = "tag"
                  THEN IF HasStr(a, "name")
                       THEN Ok([type |-> "tag", id |-> x.v["id"].v,
                                attributes |-> [name |-> a.v["name"].v],
                                relationships |-> rels.val])
                       ELSE ParseError
             ELSE ParseError))

Deserialize(x) ==
    IF ~(Has(x, "jsonapi") /\ HasStr(x.v["jsonapi"], "version") /\ Has(x, "data"))
    THEN ParseError
    ELSE Let(DeArray(x.v["data"], DeResource), LAMBDA p :
         Let(IF Absent(x, "included") THEN Ok(None)
             ELSE Let(DeArray(x.v["included"], DeResource),
                      LAMBDA l : IF l.ok THEN Ok(Some(l.val)) ELSE ParseError),
             LAMBDA i :
                 IF p.ok /\ i.ok
                 THEN Ok(BookmarksData(x.v["jsonapi"].v["version"].v, p.val, i.val))
                 ELSE ParseError))

(***************************************************************************)
(* File contents.  A text file carries what serde_json::from_str makes of  *)
(* it (None: not JSON); a file that is not UTF-8 cannot be read to a       *)
(* string; a file cut short while being written is text that is not JSON.  *)
(***************************************************************************)
Text(j)    == [utf8 |-> TRUE,  parse |-> Some(j), partial |-> None]
Garbage    == [utf8 |-> TRUE,  parse |-> None,    partial |-> None]
Binary     == [utf8 |-> FALSE, parse |-> None,    partial |-> None]
Partial(c) == [utf8 |-> TRUE,  parse |-> None,    partial |-> Some(c)]

to_string_pretty(j) == Text(j)
from_str(c) == IF IsSome(c.parse) THEN Ok(Unwrap(c.parse)) ELSE ParseError

\* fs::read_to_string on a path holding f (None: no such file).
read_to_string(f) ==
    IF ~IsSome(f) THEN Err("No such file")
    ELSE IF ~Unwrap(f).utf8 THEN Err("stream did not contain valid UTF-8")
    ELSE Ok(Unwrap(f))

(***************************************************************************)
(* The files of one directory: a function from file name to Option of      *)
(* content.                                                                *)
(***************************************************************************)
BookmarksFile == "bookmarks.json"
TempFile == "bookmarks.tmp"
FileNames == {BookmarksFile, TempFile}
NoFiles == (BookmarksFile :> None) @@ (TempFile :> None)

\* Mutation: the content is written to the target path itself.
TempPathIsTarget(path) == path

\* Path::with_extension("tmp")
TempPathOf(path) == TempFile

\* fs::rename
Rename(fs, from, to) ==
    IF from = to THEN fs ELSE [fs EXCEPT ![to] = fs[from], ![from] = None]

(***************************************************************************)
(* encryption.rs.  Bytes are symbolic: a key or nonce is its length and an *)
(* identity; an AES-GCM ciphertext opens only under the key and nonce that *)
(* sealed it.  base64 text is a wrapper that decodes back to the bytes;    *)
(* other text does not decode.                                             *)
(***************************************************************************)
NONCE_SIZE == 12
KEY_SIZE == 32
Algorithm == "AES-256-GCM"

Key(k) == [len |-> KEY_SIZE, id |-> k]
Nonce(n) == [len |-> NONCE_SIZE, id |-> n]

B64Encode(bytes) == [b64 |-> Some(bytes)]
NotBase64 == [b64 |-> None]
B64Decode(s) == IF IsSome(s.b64) THEN Ok(Unwrap(s.b64)) ELSE Err("Invalid base64")

AeadSeal(key, nonce, plaintext) == [key |-> key.id, nonce |-> nonce.id, pt |-> plaintext]
AeadOpen(key, nonce, ct) ==
    IF ct.key = key.id /\ ct.nonce = nonce.id THEN Ok(ct.pt) ELSE Err("Decryption failed")

\* A result together with whether the Keychain was asked for the key.
Asked(r, a) == [asked |-> a] @@ r

EncryptedData(encrypted, algorithm, nonce, ciphertext) ==
    [version |-> "1", encrypted |-> encrypted, algorithm |-> algorithm,
     nonce |-> nonce, ciphertext |-> ciphertext]

SerEnvelope(e) ==
    JObj([version |-> JStr(e.version), encrypted |-> JBool(e.encrypted),
          algorithm |-> JStr(e.algorithm),
          nonce |-> JStr(B64Encode(e.nonce)),
          ciphertext |-> JStr(B64Encode(e.ciphertext))])

DeEnvelope(x) ==
    IF ~(HasStr(x, "version") /\ Has(x, "encrypted") /\ HasStr(x, "algorithm")
         /\ HasStr(x, "nonce") /\ HasStr(x, "ciphertext"))
    THEN ParseError
    ELSE IF x.v["encrypted"].j # "bool" THEN ParseError
    ELSE LET n == B64Decode(x.v["nonce"].v)
             c == B64Decode(x.v["ciphertext"].v)
         IN  IF n.ok /\ c.ok
             THEN Ok([version |-> x.v["version"].v, encrypted |-> x.v["encrypted"].v,
                      algorithm |-> x.v["algorithm"].v, nonce |-> n.val,
                      ciphertext |-> c.val])
             ELSE ParseError

\* get_key_from_keychain: kc is the Keychain item (Option of the stored
\* password), granted whether the lookup (and its Touch ID prompt) succeeds.
get_key_from_keychain(mac, kc, granted) ==
    IF ~mac THEN Err("macOS Keychain not available on this platform")
    ELSE IF ~granted \/ ~IsSome(kc) THEN Err("Encryption key not found in Keychain")
    ELSE Let(B64Decode(Unwrap(kc)), LAMBDA k :
             IF ~k.ok THEN Err("Failed to decode encryption key")
             ELSE IF k.val.len # KEY_SIZE THEN Err("Invalid encryption key size")
             ELSE k)

\* Mutation: encrypt seals under a constant nonce, not the one drawn.
EncryptConstantNonce(enabled, plaintext, mac, kc, granted, nonce) ==
    IF ~enabled THEN Asked(Err("Encryption is not enabled"), FALSE)
    ELSE Let(get_key_from_keychain(mac, kc, granted), LAMBDA k :
             IF ~k.ok THEN Asked(k, TRUE)
             ELSE Asked(Ok(EncryptedData(TRUE, Algorithm, Nonce(1),
                                         AeadSeal(k.val, Nonce(1), plaintext))), TRUE))

\* EncryptionManager::encrypt; nonce is the value OsRng yields.
encrypt(enabled, plaintext, mac, kc, granted, nonce) ==
    IF ~enabled THEN Asked(Err("Encryption is not enabled"), FALSE)
    ELSE Let(get_key_from_keychain(mac, kc, granted), LAMBDA k :
             IF ~k.ok THEN Asked(k, TRUE)
             ELSE Asked(Ok(EncryptedData(TRUE, Algorithm, nonce,
                                         AeadSeal(k.val, nonce, plaintext))), TRUE))

\* Mutation: decrypt retrieves the key before it looks at the envelope.
DecryptKeyFirst(enabled, encrypted, mac, kc, granted) ==
    Let(get_key_from_keychain(mac, kc, granted), LAMBDA k :
        IF ~k.ok THEN Asked(k, TRUE)
        ELSE IF ~encrypted.encrypted THEN Asked(Err("Data is not encrypted"), TRUE)
        ELSE IF encrypted.algorithm # Algorithm
             THEN Asked(Err("Unsupported encryption algorithm"), TRUE)
        ELSE IF encrypted.nonce.len # NONCE_SIZE
             THEN Asked(Err("Invalid nonce size"), TRUE)
        ELSE Asked(AeadOpen(k.val, encrypted.nonce, encrypted.ciphertext), TRUE))

\* EncryptionManager::decrypt
decrypt(enabled, encrypted, mac, kc, granted) ==
    IF ~encrypted.encrypted THEN Asked(Err("Data is not encrypted"), FALSE)
    ELSE IF encrypted.algorithm # Algorithm
         THEN Asked(Err("Unsupported encryption algorithm"), FALSE)
    ELSE Let(get_key_from_keychain(mac, kc, granted), LAMBDA k :
             IF ~k.ok THEN Asked(k, TRUE)
             ELSE IF encrypted.nonce.len # NONCE_SIZE
                  THEN Asked(Err("Invalid nonce size"), TRUE)
             ELSE Asked(AeadOpen(k.val, encrypted.nonce, encrypted.ciphertext), TRUE))

\* serde_json::from_str::<EncryptedData>
ParseEnvelope(text) ==
    Let(from_str(text), LAMBDA j : IF j.ok THEN DeEnvelope(j.val) ELSE j)

\* EncryptionManager::read_encrypted_file
read_encrypted_file(enabled, f, mac, kc, granted) ==
    Let(read_to_string(f), LAMBDA content :
        IF ~content.ok THEN Asked(content, FALSE)
        ELSE Let(ParseEnvelope(content.val), LAMBDA e :
                 IF ~e.ok THEN Asked(Err("Failed to parse encrypted file"), FALSE)
                 ELSE decrypt(enabled, e.val, mac, kc, granted)))

\* is_encrypted
is_encrypted(f) ==
    IF ~IsSome(f) THEN Ok(FALSE)
    ELSE Let(read_to_string(f), LAMBDA content :
             IF ~content.ok THEN Err("Failed to read file")
             ELSE Let(ParseEnvelope(content.val), LAMBDA e :
                      IF e.ok THEN Ok(e.val.encrypted) ELSE Ok(FALSE)))

unwrap_or(r, default) == IF r.ok THEN r.val ELSE default

(***************************************************************************)
(* storage.rs: read_from_file_with_encryption                              *)
(***************************************************************************)
EncryptedButDisabled == Err("Bookmarks file is encrypted but encryption is not enabled")

\* String::from_utf8 on decrypted bytes
from_utf8(bytes) ==
    IF bytes.utf8 THEN Ok(bytes) ELSE Err("Decrypted data is not valid UTF-8")

\* Mutation: an encrypted file is decrypted whatever the caller's flag.
DecryptAlways(encryption_on) == TRUE

\* The flag an encrypted file is only decrypted under.
DecryptAllowed(encryption_on) == encryption_on

\* Mutation: what was decoded is returned unvalidated.
ValidateSkipped(data) == Ok(Unit)

\* The validation read_from_file_with_encryption ends with.
ValidateAfterDecode(data) == Validate(data)

\* The text of the file: decrypted when it is an envelope, read as it is
\* otherwise.
ReadContent(f, encryption_on, mac, kc, granted) ==
    IF unwrap_or(is_encrypted(f), FALSE)
    THEN IF ~DecryptAllowed(encryption_on) THEN Asked(EncryptedButDisabled, FALSE)
         ELSE Let(read_encrypted_file(TRUE, f, mac, kc, granted), LAMBDA b :
                  IF ~b.ok THEN b ELSE Asked(from_utf8(b.val), b.asked))
    ELSE Asked(read_to_string(f), FALSE)

\* serde_json::from_str::<BookmarksData>
ParseBookmarks(text) ==
    Let(from_str(text), LAMBDA j : IF j.ok THEN Deserialize(j.val) ELSE j)

read_from_file_with_encryption(f, encryption_on, mac, kc, granted) ==
    Let(ReadContent(f, encryption_on, mac, kc, granted), LAMBDA content :
        IF ~content.ok THEN content
        ELSE Let(ParseBookmarks(content.val), LAMBDA data :
                 IF ~data.ok
                 THEN Asked(Err("Failed to parse bookmarks JSON"), content.asked)
                 ELSE Let(ValidateAfterDecode(data.val), LAMBDA v :
                          IF ~v.ok THEN Asked(v, content.asked)
                          ELSE Asked(Ok(data.val), content.asked))))

read_from_file(f) == read_from_file_with_encryption(f, FALSE, FALSE, None, FALSE)

(***************************************************************************)
(* storage.rs: write_to_file_with_encryption, in two parts.  WriteContent  *)
(* is everything before the file system is touched: validate, serialize,   *)
(* and with encryption on encrypt and serialize the envelope.  The atomic  *)
(* replace is fs::write to the temp path, then fs::rename onto the target. *)
(***************************************************************************)
\* Mutation: the document is written unvalidated.
ValidateBeforeWriteSkipped(data) == Ok(Unit)

\* The validation write_to_file_with_encryption starts with.
ValidateBeforeWrite(data) == Validate(data)

\* Mutation: when the document cannot be encrypted it is written in plain text.
WriteContentFallsBack(data, encryption_on, mac, kc, granted, nonce) ==
    Let(ValidateBeforeWrite(data), LAMBDA v :
        IF ~v.ok THEN Asked(v, FALSE)
        ELSE IF encryption_on
                /\ encrypt(TRUE, to_string_pretty(Serialize(data)), mac, kc, granted, nonce).ok
        THEN Let(encrypt(TRUE, to_string_pretty(Serialize(data)), mac, kc, granted, nonce),
                 LAMBDA e : Asked(Ok(to_string_pretty(SerEnvelope(e.val))), e.asked))
        ELSE Asked(Ok(to_string_pretty(Serialize(data))), FALSE))

WriteContent(data, encryption_on, mac, kc, granted, nonce) ==
    Let(ValidateBeforeWrite(data), LAMBDA v :
        IF ~v.ok THEN Asked(v, FALSE)
        ELSE IF encryption_on
        THEN Let(encrypt(TRUE, to_string_pretty(Serialize(data)), mac, kc, granted, nonce),
                 LAMBDA e : IF ~e.ok THEN e
                            ELSE Asked(Ok(to_string_pretty(SerEnvelope(e.val))), e.asked))
        ELSE Asked(Ok(to_string_pretty(Serialize(data))), FALSE))

\* fs::write(temp_path, content): completed, or cut short leaving part of it.
TempWritten(fs, path, content) == [fs EXCEPT ![TempPathOf(path)] = Some(content)]
TempCutShort(fs, path, content) == [fs EXCEPT ![TempPathOf(path)] = Some(Partial(content))]

\* fs::rename(temp_path, path)
TempRenamed(fs, path) == Rename(fs, TempPathOf(path), path)

\* Where the atomic replace can fail: creating the temp file, writing it,
\* renaming it; "none" is the run without a failure.
ReplaceFaults == {"none", "create", "write", "rename"}

AtomicReplace(fs, path, content, fault) ==
    CASE fault = "create" -> [fs |-> fs, res |-> Err("Failed to write temp file")]
      [] fault = "write"  -> [fs |-> TempCutShort(fs, path, content),
                              res |-> Err("Failed to write temp file")]
      [] fault = "rename" -> [fs |-> TempWritten(fs, path, content),
                              res |-> Err("Failed to rename temp file to target")]
      [] OTHER            -> [fs |-> TempRenamed(TempWritten(fs, path, content), path),
                              res |-> Ok(Unit)]

write_to_file_with_encryption(fs, path, data, encryption_on, mac, kc, granted, nonce, fault) ==
    Let(WriteContent(data, encryption_on, mac, kc, granted, nonce), LAMBDA c :
        IF ~c.ok THEN [fs |-> fs, res |-> c]
        ELSE Let(AtomicReplace(fs, path, c.val, fault),
                 LAMBDA r : [fs |-> r.fs, res |-> Asked(r.res, c.asked)]))

\* Mutation: write_to_file reports success and writes nothing.
WriteNothing(fs, path, data, fault) == [fs |-> fs, res |-> Asked(Ok(Unit), FALSE)]

\* write_to_file
write_to_file(fs, path, data, fault) ==
    write_to_file_with_encryption(fs, path, data, FALSE, FALSE, None, FALSE, Nonce(1), fault)

(***************************************************************************)
(* The document specification: a BookmarksData value built by hand or      *)
(* decoded from a file, mutated with add_bookmark / add_tag and validated. *)
(***************************************************************************)
Ids == {"id1", "id2"}

\* Field values validate() accepts, and field values it is meant to reject.
GoodBookmarkFields == { <<UrlHttps, TitleOk>> }
EdgeBookmarkFields ==
    { <<UrlHttp, TitleMax>>, <<UrlMax, TitleOk>>, <<UrlFtp, TitleOk>>,
      <<UrlRelative, TitleOk>>, <<UrlEmpty, TitleOk>>, <<UrlTooLong, TitleOk>>,
      <<UrlWide, TitleOk>>, <<UrlHttps, TitleTooLong>> }
GoodTagNames == { NameOk }
EdgeTagNames == { NameMax, NameEmpty, NameTooLong, NameLt, NameGt }

DocBookmarks ==
    { Bookmark(id, a[1], a[2], None) : id \in Ids, a \in GoodBookmarkFields }
    \cup { Bookmark("id1", a[1], a[2], None) : a \in EdgeBookmarkFields }

DocTags ==
    { Tag(id, n, None) : id \in Ids, n \in GoodTagNames }
    \cup { Tag("id1", n, None) : n \in EdgeTagNames }

DocResources == DocBookmarks \cup DocTags

SeqsOfLen(S, k) == [1..k -> S]

\* Documents of n primary and m included resources, under either version.
DocsOfShape(n, m) ==
    { BookmarksData(v, p, i) :
        v \in {"1.1", "1.0"},
        p \in SeqsOfLen(DocResources, n),
        i \in (IF m = 0 THEN {None} ELSE {}) \cup
              { Some(s) : s \in SeqsOfLen(DocResources, m) } }

\* What ret holds once a call has returned.
Returned(op, arg, res) == Some([op |-> op, arg |-> arg, res |-> res])

\* The variables a specification does not use stay at these values.
DocIdle == doc = NewBookmarksData /\ verdict = None /\ ret = None
EnvIdle == macos = FALSE /\ keychain = None
StorageIdle ==
    sfs = NoFiles /\ spc = "idle" /\ sjob = None /\ slast = None
NoResponse ==
    [op |-> "none", req |-> None, fault |-> "none", asked |-> FALSE,
     type |-> "none", code |-> None, data |-> None]
HostIdle == stdin = <<>> /\ stdout = <<>> /\ pc = "idle" /\ pending = None
SessionIdle ==
    /\ dirs = {<<>>} /\ wt = <<>> /\ remote = None
    /\ repo_path = None /\ encryption_enabled = FALSE
    /\ resp = NoResponse /\ encSource = None

\* Any document of at most MaxRes resources.
InitDoc ==
    /\ HostIdle
    /\ \E n \in 0..MaxRes : \E m \in 0..(MaxRes - n) : doc \in DocsOfShape(n, m)
    /\ verdict = None
    /\ ret = None
    /\ EnvIdle
    /\ StorageIdle
    /\ SessionIdle

AddBookmark(r) ==
    /\ TotalRes(doc) < MaxRes
    /\ add_bookmark(doc, r).ok
    /\ doc' = add_bookmark(doc, r).val
    /\ verdict' = None
    /\ UNCHANGED <<ret, envVars, storageVars, sessionVars, hostVars>>

AddTag(r) ==
    /\ TotalRes(doc) < MaxRes
    /\ add_tag(doc, r).ok
    /\ doc' = add_tag(doc, r).val
    /\ verdict' = None
    /\ UNCHANGED <<ret, envVars, storageVars, sessionVars, hostVars>>

DoValidate ==
    /\ verdict' = Some(Validate(doc))
    /\ UNCHANGED <<doc, ret, envVars, storageVars, sessionVars, hostVars>>

NextDoc ==
    \/ \E r \in DocResources : AddBookmark(r)
    \/ \E r \in DocResources : AddTag(r)
    \/ DoValidate

SpecDoc == InitDoc /\ [][NextDoc]_vars

(***************************************************************************)
(* The tag specification: documents of tags with parent references (every  *)
(* shape a reference can take, chains, cycles, dangling and repeated ids)  *)
(* and a bookmark, in either list; add_bookmark / add_tag and the four     *)
(* read-only views are called on them.                                     *)
(***************************************************************************)
TagIds == {"t1", "t2", "t3"}

TagNameOf(id) ==
    CASE id = "t1" -> [text |-> "tech", bytes |-> 4, chars |-> 4, lt |-> FALSE, gt |-> FALSE]
      [] id = "t2" -> [text |-> "programming", bytes |-> 11, chars |-> 11,
                       lt |-> FALSE, gt |-> FALSE]
      [] OTHER     -> NameOk

\* A tag without a parent, in the three shapes the Option fields allow.
Orphan(id) ==
    CASE id = "t1" -> None
      [] id = "t2" -> Some([parent |-> Some([data |-> None])])
      [] OTHER     -> Some([parent |-> None])

TagResources ==
    { Tag(id, TagNameOf(id), Orphan(id)) : id \in TagIds }
    \cup { Tag(id, TagNameOf(id), ChildOf(p)) : id \in TagIds, p \in TagIds }

TagDocResources == TagResources \cup { Bookmark("b1", UrlHttps, TitleOk, None) }

\* Documents of n primary and m included resources.
TagDocsOfShape(n, m) ==
    { BookmarksData("1.1", p, i) :
        p \in SeqsOfLen(TagDocResources, n),
        i \in (IF m = 0 THEN {None} ELSE {})
              \cup { Some(s) : s \in SeqsOfLen(TagDocResources, m) } }

InitTags ==
    /\ HostIdle
    /\ \E n \in 0..MaxTags : \E m \in 0..(MaxTags - n) : doc \in TagDocsOfShape(n, m)
    /\ verdict = None
    /\ ret = None
    /\ EnvIdle
    /\ StorageIdle
    /\ SessionIdle

\* doc.add_bookmark(r): the document changes only when the call succeeds.
CallAddBookmark(r) ==
    /\ TotalRes(doc) < MaxTags
    /\ doc' = IF add_bookmark(doc, r).ok THEN add_bookmark(doc, r).val ELSE doc
    /\ ret' = Returned("add_bookmark", r,
                       IF add_bookmark(doc, r).ok THEN Ok(Unit) ELSE add_bookmark(doc, r))
    /\ UNCHANGED <<verdict, envVars, storageVars, sessionVars, hostVars>>

CallAddTag(r) ==
    /\ TotalRes(doc) < MaxTags
    /\ doc' = IF add_tag(doc, r).ok THEN add_tag(doc, r).val ELSE doc
    /\ ret' = Returned("add_tag", r,
                       IF add_tag(doc, r).ok THEN Ok(Unit) ELSE add_tag(doc, r))
    /\ UNCHANGED <<verdict, envVars, storageVars, sessionVars, hostVars>>

GetBookmarks ==
    /\ ret' = Returned("get_bookmarks", None, get_bookmarks(doc))
    /\ UNCHANGED <<doc, verdict, envVars, storageVars, sessionVars, hostVars>>

GetTags ==
    /\ ret' = Returned("get_tags", None, get_tags(doc))
    /\ UNCHANGED <<doc, verdict, envVars, storageVars, sessionVars, hostVars>>

GetTagHierarchy ==
    /\ ret' = Returned("get_tag_hierarchy", None, get_tag_hierarchy(doc))
    /\ UNCHANGED <<doc, verdict, envVars, storageVars, sessionVars, hostVars>>

GetTagBreadcrumb(tag_id) ==
    /\ ret' = Returned("get_tag_breadcrumb", tag_id, get_tag_breadcrumb(doc, tag_id))
    /\ UNCHANGED <<doc, verdict, envVars, storageVars, sessionVars, hostVars>>

NextTags ==
    \/ \E r \in TagDocResources : CallAddBookmark(r)
    \/ \E r \in TagDocResources : CallAddTag(r)
    \/ GetBookmarks
    \/ GetTags
    \/ GetTagHierarchy
    \/ \E tag_id \in TagIds : GetTagBreadcrumb(tag_id)

SpecTags == InitTags /\ [][NextTags]_vars

(***************************************************************************)
(* Named documents: the document of the integration tests, the shapes the  *)
(* Option fields can take, and documents validate() is meant to reject.    *)
(***************************************************************************)
TagRust == Tag("tag-rust", NameOk, None)
BookmarkRust ==
    Bookmark("bookmark-1", UrlHttps, TitleOk,
             TaggedWith(<<ResourceIdentifier("tag", "tag-rust")>>))

DocEmpty == NewBookmarksData
DocOne == BookmarksData("1.1", <<BookmarkRust>>, Some(<<TagRust>>))
DocIncludedEmpty == BookmarksData("1.1", <<>>, Some(<<>>))
DocTagForms ==
    BookmarksData("1.1",
        << Tag("t1", NameOk, Some([parent |-> None])),
           Tag("t2", NameMax, Some([parent |-> Some([data |-> None])])),
           Tag("t3", NameOk, ChildOf("t1")),
           Bookmark("b2", UrlHttp, TitleMax, Some([tags |-> None])) >>,
        Some(<<>>))
DocFtp == BookmarksData("1.1", <<Bookmark("bookmark-1", UrlFtp, TitleOk, None)>>, None)
DocDuplicate == BookmarksData("1.1", <<BookmarkRust>>, Some(<<Tag("bookmark-1", NameOk, None)>>))
DocOldVersion == BookmarksData("1.0", <<BookmarkRust>>, None)
DocIncludedLt == BookmarksData("1.1", <<>>, Some(<<Tag("tag-x", NameLt, None)>>))

ValidDocs == {DocEmpty, DocOne, DocIncludedEmpty, DocTagForms}
StorageDocs == ValidDocs \cup {DocFtp, DocDuplicate, DocOldVersion, DocIncludedLt}

Keys == { Key(k) : k \in 1..MaxKey }
Nonces == { Nonce(n) : n \in 1..MaxNonce }

\* The envelope file encrypt and write_encrypted_file produce for a document.
EnvelopeOf(d, key, nonce) ==
    to_string_pretty(SerEnvelope(EncryptedData(TRUE, Algorithm, nonce,
        AeadSeal(key, nonce, to_string_pretty(Serialize(d))))))

\* Files the working tree can hold that this process did not write: what a
\* clone or pull brings in from another device, or an edit by hand.
ForeignContents ==
    { to_string_pretty(Serialize(DocOne)),
      to_string_pretty(Serialize(DocFtp)),
      to_string_pretty(JObj([jsonapi |-> JObj([version |-> JStr("1.1")])])),
      EnvelopeOf(DocEmpty, Key(1), Nonce(1)),
      EnvelopeOf(DocFtp, Key(1), Nonce(1)),
      to_string_pretty(SerEnvelope(EncryptedData(TRUE, "ROT13", Nonce(1),
          AeadSeal(Key(1), Nonce(1), to_string_pretty(Serialize(DocOne)))))),
      to_string_pretty(SerEnvelope(EncryptedData(FALSE, Algorithm, Nonce(1),
          AeadSeal(Key(1), Nonce(1), to_string_pretty(Serialize(DocOne)))))),
      Garbage,
      Binary }

(***************************************************************************)
(* The storage specification: write_to_file_with_encryption step by step   *)
(* (the process can be killed between any two steps) and                   *)
(* read_from_file_with_encryption, on one directory.                       *)
(***************************************************************************)
StorageWriteDocs == {DocOne, DocTagForms, DocFtp, DocDuplicate}

StorageInitialFiles ==
    { None,
      Some(to_string_pretty(Serialize(DocIncludedEmpty))),
      Some(EnvelopeOf(DocEmpty, Key(1), Nonce(1))),
      Some(Garbage) }

InitStorage ==
    /\ HostIdle
    /\ DocIdle
    /\ macos \in BOOLEAN
    /\ keychain \in {None} \cup { Some(B64Encode(k)) : k \in Keys }
    /\ sfs \in { [NoFiles EXCEPT ![BookmarksFile] = f] : f \in StorageInitialFiles }
    /\ spc = "idle"
    /\ sjob = None
    /\ slast = None
    /\ SessionIdle

WriteReturns(r) == Some([op |-> "write", res |-> r])

\* The call starts: validate, serialize, encrypt.  An error returns at once.
WriteBegin(d, e, granted, nonce) ==
    /\ spc = "idle"
    /\ \E c \in {WriteContent(d, e, macos, keychain, granted, nonce)} :
           IF c.ok
           THEN /\ spc' = "create"
                /\ sjob' = Some([doc |-> d, e |-> e, content |-> c.val,
                                 prev |-> sfs[BookmarksFile], done |-> FALSE])
                /\ slast' = None
           ELSE /\ slast' = WriteReturns(c)
                /\ UNCHANGED <<spc, sjob>>
    /\ UNCHANGED <<docVars, envVars, sessionVars, sfs, hostVars>>

\* fs::write creates (or truncates) the temp file, or fails to.
WriteCreate(fails) ==
    /\ spc = "create"
    /\ IF fails
       THEN /\ spc' = "idle"
            /\ slast' = WriteReturns(Err("Failed to write temp file"))
            /\ UNCHANGED sfs
       ELSE /\ spc' = "writing"
            /\ sfs' = TempCutShort(sfs, BookmarksFile, Unwrap(sjob).content)
            /\ UNCHANGED slast
    /\ UNCHANGED <<docVars, envVars, sessionVars, sjob, hostVars>>

\* fs::write writes the rest of the content, or fails part way.
WriteFill(fails) ==
    /\ spc = "writing"
    /\ IF fails
       THEN /\ spc' = "idle"
            /\ slast' = WriteReturns(Err("Failed to write temp file"))
            /\ UNCHANGED sfs
       ELSE /\ spc' = "rename"
            /\ sfs' = TempWritten(sfs, BookmarksFile, Unwrap(sjob).content)
            /\ UNCHANGED slast
    /\ UNCHANGED <<docVars, envVars, sessionVars, sjob, hostVars>>

\* fs::rename moves the temp file onto the target, or fails; then the call returns.
WriteRename(fails) ==
    /\ spc = "rename"
    /\ spc' = "idle"
    /\ IF fails
       THEN /\ slast' = WriteReturns(Err("Failed to rename temp file to target"))
            /\ UNCHANGED <<sfs, sjob>>
       ELSE /\ sfs' = TempRenamed(sfs, BookmarksFile)
            /\ slast' = WriteReturns(Ok(Unit))
            /\ sjob' = Some([Unwrap(sjob) EXCEPT !.done = TRUE])
    /\ UNCHANGED <<docVars, envVars, sessionVars, hostVars>>

\* The process is killed in the middle of the call.
WriteInterrupted ==
    /\ spc # "idle"
    /\ spc' = "idle"
    /\ slast' = Some([op |-> "killed"])
    /\ UNCHANGED <<docVars, envVars, sessionVars, sfs, sjob, hostVars>>

ReadDocument(e, granted) ==
    /\ spc = "idle"
    /\ slast' = Some([op |-> "read", e |-> e, granted |-> granted,
                      res |-> read_from_file_with_encryption(
                                  sfs[BookmarksFile], e, macos, keychain, granted)])
    /\ UNCHANGED <<docVars, envVars, sessionVars, sfs, spc, sjob, hostVars>>

NextStorage ==
    \/ \E d \in StorageWriteDocs, e \in BOOLEAN, granted \in BOOLEAN, n \in Nonces :
          WriteBegin(d, e, granted, n)
    \/ \E fails \in BOOLEAN : WriteCreate(fails)
    \/ \E fails \in BOOLEAN : WriteFill(fails)
    \/ \E fails \in BOOLEAN : WriteRename(fails)
    \/ WriteInterrupted
    \/ \E e \in BOOLEAN, granted \in BOOLEAN : ReadDocument(e, granted)

SpecStorage == InitStorage /\ [][NextStorage]_vars

(***************************************************************************)
(* The encryption specification: is_encrypted on one file, and             *)
(* EncryptionManager::encrypt / decrypt called with either value of the    *)
(* manager's enabled flag, under every state of the Keychain item.         *)
(***************************************************************************)
ShortNonce == [len |-> 8, id |-> 1]
ShortKey == [len |-> 16, id |-> 1]

SealedOne == AeadSeal(Key(1), Nonce(1), to_string_pretty(Serialize(DocOne)))

\* Envelopes handed to decrypt: a good one, and ones failing each check.
CryptoEnvelopes ==
    { EncryptedData(TRUE, Algorithm, Nonce(1), SealedOne),
      EncryptedData(FALSE, Algorithm, Nonce(1), SealedOne),
      EncryptedData(TRUE, "ROT13", Nonce(1), SealedOne),
      EncryptedData(FALSE, "ROT13", ShortNonce, SealedOne),
      EncryptedData(TRUE, "ROT13", ShortNonce, SealedOne),
      EncryptedData(TRUE, Algorithm, ShortNonce, SealedOne) }

\* What the Keychain item can hold: nothing, a key, a password that is not
\* base64, a key of the wrong size.
KeychainItems ==
    {None, Some(NotBase64), Some(B64Encode(ShortKey))}
    \cup { Some(B64Encode(k)) : k \in Keys }

CryptoFiles ==
    {None} \cup { Some(c) : c \in ForeignContents }
    \cup { Some(to_string_pretty(SerEnvelope(e))) : e \in CryptoEnvelopes }
    \cup { Some(to_string_pretty(JObj([encrypted |-> JBool(TRUE)]))),
           Some(Partial(EnvelopeOf(DocOne, Key(1), Nonce(1)))) }

\* The values OsRng can yield for a nonce: one more than a session draws from.
CryptoNonces == Nonces \cup { Nonce(MaxNonce + 1) }

CryptoPlaintexts == { to_string_pretty(Serialize(DocOne)), Binary }

InitCrypto ==
    /\ HostIdle
    /\ DocIdle
    /\ macos \in BOOLEAN
    /\ keychain \in KeychainItems
    /\ sfs \in { [NoFiles EXCEPT ![BookmarksFile] = f] : f \in CryptoFiles }
    /\ spc = "idle"
    /\ sjob = None
    /\ slast = None
    /\ SessionIdle

IsEncrypted ==
    /\ ret' = Returned("is_encrypted", sfs[BookmarksFile], is_encrypted(sfs[BookmarksFile]))
    /\ UNCHANGED <<doc, verdict, envVars, storageVars, sessionVars, hostVars>>

Encrypt(enabled, plaintext, granted, nonce) ==
    /\ ret' = Returned("encrypt",
                       [enabled |-> enabled, plaintext |-> plaintext, granted |-> granted,
                        nonce |-> nonce],
                       encrypt(enabled, plaintext, macos, keychain, granted, nonce))
    /\ UNCHANGED <<doc, verdict, envVars, storageVars, sessionVars, hostVars>>

Decrypt(enabled, encrypted, granted) ==
    /\ ret' = Returned("decrypt",
                       [enabled |-> enabled, encrypted |-> encrypted, granted |-> granted],
                       decrypt(enabled, encrypted, macos, keychain, granted))
    /\ UNCHANGED <<doc, verdict, envVars, storageVars, sessionVars, hostVars>>

NextCrypto ==
    \/ IsEncrypted
    \/ \E enabled \in BOOLEAN, plaintext \in CryptoPlaintexts,
          granted \in BOOLEAN, nonce \in CryptoNonces :
          Encrypt(enabled, plaintext, granted, nonce)
    \/ \E enabled \in BOOLEAN, encrypted \in CryptoEnvelopes, granted \in BOOLEAN :
          Decrypt(enabled, encrypted, granted)

SpecCrypto == InitCrypto /\ [][NextCrypto]_vars

(***************************************************************************)
(* Paths.  A path is absolute or relative and a sequence of components,    *)
(* ".." among them; a directory that exists is known by its canonical      *)
(* path, the sequence of names from the root.  The root stands for the     *)
(* directory ~/.local/share, so the allowed base is its child "webtags".   *)
(***************************************************************************)
PathBuf(absolute, comps) == [absolute |-> absolute, comps |-> comps]
AllowedBase == <<"webtags">>
DefaultRepo == PathBuf(FALSE, <<"default-repo">>)

\* Path::starts_with: component-wise prefix
starts_with(p, base) ==
    Len(p) >= Len(base) /\ SubSeq(p, 1, Len(base)) = base

\* Path::parent: the path without its last component
parent(p) == IF p = <<>> THEN None ELSE Some(SubSeq(p, 1, Len(p) - 1))

\* The directory ".." leads to; the root is its own parent.
UpFrom(cur) == IF cur = <<>> THEN <<>> ELSE SubSeq(cur, 1, Len(cur) - 1)

RECURSIVE Resolve(_, _, _, _)
Resolve(p, i, cur, ds) ==
    IF i > Len(p) THEN Ok(cur)
    ELSE IF p[i] = ".." THEN Resolve(p, i + 1, UpFrom(cur), ds)
    ELSE IF Append(cur, p[i]) \in ds THEN Resolve(p, i + 1, Append(cur, p[i]), ds)
    ELSE Err("No such file or directory")

\* Path::canonicalize and Path::exists of an absolute path, given the
\* directories ds that exist.
canonicalize(p, ds) == Resolve(p, 1, <<>>, ds)
exists(p, ds) == canonicalize(p, ds).ok

RECURSIVE MakeDirs(_, _, _, _)
MakeDirs(p, i, cur, ds) ==
    IF i > Len(p) THEN [dirs |-> ds, at |-> cur]
    ELSE IF p[i] = ".." THEN MakeDirs(p, i + 1, UpFrom(cur), ds)
    ELSE MakeDirs(p, i + 1, Append(cur, p[i]), ds \cup {Append(cur, p[i])})

\* fs::create_dir_all: every missing directory along p is created; at is
\* the directory p then names.
create_dir_all(p, ds) == MakeDirs(p, 1, <<>>, ds)

OutsideBase == Err("Repository path must be within the allowed base")

\* The check of a path that does not exist: its parent, when that exists,
\* must lie within the base.
ParentOutside(resolved, canonical_base, ds) ==
    Let(parent(resolved), LAMBDA par :
        /\ IsSome(par)
        /\ exists(Unwrap(par), ds)
        /\ ~starts_with(canonicalize(Unwrap(par), ds).val, canonical_base))

\* The final check: a path that exists must lie within the base.
WithinBase(canonical_path, canonical_base, ds) ==
    IF exists(canonical_path, ds) /\ ~starts_with(canonical_path, canonical_base)
    THEN OutsideBase
    ELSE Ok(canonical_path)

\* The path handed on for a resolved path, or the rejection.
CheckResolved(resolved, canonical_base, ds) ==
    IF exists(resolved, ds)
    THEN WithinBase(canonicalize(resolved, ds).val, canonical_base, ds)
    ELSE IF ParentOutside(resolved, canonical_base, ds) THEN OutsideBase
    ELSE WithinBase(resolved, canonical_base, ds)

\* validate_repo_path: the directories afterwards (the base is created when
\* missing) and the path handed on, or the rejection.
validate_repo_path(path, ds) ==
    Let(IF exists(AllowedBase, ds) THEN ds ELSE create_dir_all(AllowedBase, ds).dirs,
        LAMBDA ds1 :
            [dirs |-> ds1,
             res |-> CheckResolved(
                         IF path.absolute THEN path.comps ELSE AllowedBase \o path.comps,
                         canonicalize(AllowedBase, ds1).val, ds1)])

(***************************************************************************)
(* git.rs.  A working tree is the files of its directory, the index entry  *)
(* of bookmarks.json, the commits of its branch oldest first (the last is  *)
(* the tip), whether the remote "origin" is configured and whether a merge *)
(* is pending (MERGE_HEAD).  A commit is its message, the blob of          *)
(* bookmarks.json in its tree and its parent commits; every commit holds   *)
(* the file.  wt maps the directories that hold a .git to their trees.     *)
(***************************************************************************)
Commit(message, blob, parents) ==
    [message |-> message, blob |-> blob, parents |-> parents]

\* The tip of a branch: Option of its last commit.
Tip(commits) == IF commits = <<>> THEN None ELSE Some(commits[Len(commits)])
TipBlob(commits) == IF commits = <<>> THEN None ELSE commits[Len(commits)].blob

Tree(fs, commits, origin) ==
    [fs |-> fs, commits |-> commits, origin |-> origin,
     index |-> TipBlob(commits), merging |-> FALSE]
EmptyTree == Tree(NoFiles, <<>>, FALSE)

\* The files a clone checks out: those of the last commit.
Checkout(history) ==
    IF history = <<>> THEN NoFiles
    ELSE [NoFiles EXCEPT ![BookmarksFile] = history[Len(history)].blob]

\* path.join(".git").exists()
HasGitDir(path, ds, trees) ==
    exists(path, ds) /\ canonicalize(path, ds).val \in DOMAIN trees

\* GitRepo::init: open the repository at path, or create it with the
\* directories leading to it.
GitInit(path, ds, trees, fault) ==
    IF HasGitDir(path, ds, trees)
    THEN IF fault = "open"
         THEN [dirs |-> ds, wt |-> trees, res |-> Err("Failed to open existing repository")]
         ELSE [dirs |-> ds, wt |-> trees, res |-> Ok(path)]
    ELSE IF fault = "init"
         THEN [dirs |-> ds, wt |-> trees, res |-> Err("Failed to initialize repository")]
    ELSE Let(create_dir_all(path, ds), LAMBDA made :
             [dirs |-> made.dirs, wt |-> (made.at :> EmptyTree) @@ trees, res |-> Ok(path)])

\* A directory with something in it: a repository or a subdirectory.
NonEmptyDir(at, ds, trees) ==
    at \in DOMAIN trees \/ \E d \in ds : d # at /\ starts_with(d, at)

\* Repository::clone: the history behind the URL is cloned into path, which
\* must be missing or empty.
RepositoryClone(path, ds, trees, history, fault) ==
    Let(create_dir_all(path, ds), LAMBDA made :
        IF fault = "clone" \/ (exists(path, ds) /\ NonEmptyDir(made.at, ds, trees))
        THEN [dirs |-> ds, wt |-> trees, res |-> Err("Failed to clone repository")]
        ELSE [dirs |-> made.dirs,
              wt |-> (made.at :> Tree(Checkout(history), history, TRUE)) @@ trees,
              res |-> Ok(path)])

\* GitRepo::clone: create the parent directories, then clone.
GitClone(path, ds, trees, history, fault) ==
    RepositoryClone(path,
        IF IsSome(parent(path)) THEN create_dir_all(Unwrap(parent(path)), ds).dirs ELSE ds,
        trees, history, fault)

\* Mutation: add_file stages nothing.
GitAddNothing(tree) == tree

\* add_file: the index takes the file as it is in the working directory.
GitAdd(tree) == [tree EXCEPT !.index = tree.fs[BookmarksFile]]

\* Mutation: nothing is committed when the index is the tree of the tip.
GitCommitUnlessUnchanged(tree, message) ==
    IF tree.commits # <<>> /\ tree.index = TipBlob(tree.commits) THEN tree
    ELSE [tree EXCEPT !.commits = Append(@, Commit(message, tree.index, Tip(tree.commits)))]

\* commit: the tree of the new commit is the index; its parent is HEAD's
\* commit, if any.
GitCommit(tree, message) ==
    [tree EXCEPT !.commits = Append(@, Commit(message, tree.index, Tip(tree.commits)))]

\* is_clean: no status entry.  bookmarks.json is the same in HEAD, index
\* and working directory, and no other (untracked) file is there.
is_clean(tree) ==
    /\ tree.index = TipBlob(tree.commits)
    /\ tree.fs[BookmarksFile] = tree.index
    /\ tree.fs[TempFile] = None

\* A commit message that is not valid UTF-8: Commit::message() is None.
NotUtf8Message == <<"not UTF-8">>
NoMessage == <<"(no message)">>

\* get_last_commit_message: HEAD, peeled to its commit; without a commit
\* HEAD names a branch that does not exist and repo.head() fails.
get_last_commit_message(tree) ==
    IF tree.commits = <<>> THEN Err("Failed to get HEAD")
    ELSE IF Unwrap(Tip(tree.commits)).message = NotUtf8Message THEN Ok(NoMessage)
    ELSE Ok(Unwrap(Tip(tree.commits)).message)

\* push: the remote takes the branch when it is a fast-forward of its own.
IsPrefix(s, t) == Len(s) <= Len(t) /\ SubSeq(t, 1, Len(s)) = s

\* Mutation: a push that is not a fast-forward overwrites the remote branch.
GitPushForce(tree, rem, fault) ==
    IF fault = "push" THEN [remote |-> rem, res |-> Err("Failed to push to remote")]
    ELSE [remote |-> Some(tree.commits), res |-> Ok(Unit)]

GitPush(tree, rem, fault) ==
    IF fault = "push" THEN [remote |-> rem, res |-> Err("Failed to push to remote")]
    ELSE IF IsSome(rem) /\ ~IsPrefix(Unwrap(rem), tree.commits)
         THEN [remote |-> rem, res |-> Err("Failed to push to remote")]
    ELSE [remote |-> Some(tree.commits), res |-> Ok(Unit)]

\* The commits reachable from c, c among them.
RECURSIVE Ancestors(_)
Ancestors(c) == {c} \cup UNION { Ancestors(c.parents[i]) : i \in DOMAIN c.parents }

\* The blob of the merge base of two commits (None without a common
\* ancestor): a common ancestor that no other common ancestor descends from.
MergeBaseBlob(ours, theirs) ==
    Let(Ancestors(ours) \cap Ancestors(theirs), LAMBDA common :
        IF common = {} THEN None
        ELSE (CHOOSE c \in common : \A d \in common : c \in Ancestors(d) => c = d).blob)

\* Text that a three-way merge put together from two versions whose changes
\* lie apart; whether it still parses is not followed.
MergedText(ours, theirs) ==
    [utf8 |-> TRUE, parse |-> None, partial |-> None, merged |-> <<ours, theirs>>]

\* An index entry in conflict: the stages of the path (IndexConflict).
IndexConflict(ancestor, our, their) == [ancestor |-> ancestor, our |-> our, their |-> their]

\* The three-way merge of bookmarks.json by repo.merge (default merge
\* options): the blob it ends with, or the conflict when both sides changed
\* the base and their changes do not lie apart in the text.
MergeFile(base, ours, theirs, fault) ==
    IF ours = theirs \/ theirs = base THEN [conflict |-> FALSE, blob |-> ours]
    ELSE IF ours = base THEN [conflict |-> FALSE, blob |-> theirs]
    ELSE IF fault = "apart" /\ IsSome(base)
    THEN [conflict |-> FALSE, blob |-> Some(MergedText(Unwrap(ours), Unwrap(theirs)))]
    ELSE [conflict |-> TRUE, blob |-> Some(IndexConflict(base, ours, theirs))]

\* format!("Merge from {}/{}", remote_name, branch): a message is the
\* sequence of its pieces.
MergeMessage == <<"Merge from ", "origin", "/", "main">>

\* The merge of pull.  merge() refuses when the file it would change has
\* uncommitted changes.  On a conflict the checkout (use_theirs) writes the
\* remote's version to the working directory; index.add(&their) puts the
\* stage-3 entry back where it is, so the index stays in conflict and
\* write_tree fails, with the merge left pending.  Otherwise the result is
\* checked out and staged, and committed with HEAD's commit and the fetched
\* one as parents; the merge state is cleaned up last.  commits keeps the
\* remote's history first, then the commits only the local branch has,
\* then the merge commit.
Merge(tree, head, fetch_commit, rem, fault) ==
    Let(MergeFile(MergeBaseBlob(head, fetch_commit), head.blob, fetch_commit.blob, fault),
        LAMBDA merged :
        IF merged.blob # head.blob
           /\ (tree.index # head.blob \/ tree.fs[BookmarksFile] # tree.index)
        THEN [tree |-> tree,
              res |-> Err("uncommitted changes would be overwritten by merge")]
        ELSE IF merged.conflict
        THEN [tree |-> [tree EXCEPT !.fs = [@ EXCEPT ![BookmarksFile] = fetch_commit.blob],
                                    !.index = merged.blob,
                                    !.merging = TRUE],
              res |-> Err("cannot create a tree from a not fully merged index")]
        ELSE IF fault = "commit"
        THEN [tree |-> [tree EXCEPT !.fs = [@ EXCEPT ![BookmarksFile] = merged.blob],
                                    !.index = merged.blob,
                                    !.merging = TRUE],
              res |-> Err("Failed to create signature")]
        ELSE [tree |-> [tree EXCEPT
                          !.fs = [@ EXCEPT ![BookmarksFile] = merged.blob],
                          !.index = merged.blob,
                          !.commits = rem \o SelectSeq(tree.commits,
                                                 LAMBDA c : \A i \in DOMAIN rem : rem[i] # c)
                                      \o <<Commit(MergeMessage, merged.blob,
                                                  <<head, fetch_commit>>)>>,
                          !.merging = FALSE],
              res |-> Ok(Unit)])

\* Mutation: a branch that could be fast-forwarded is merged with a commit.
MergeAnalysisNoFastForward(tree, rem, fault) ==
    IF tree.commits = <<>>
    THEN [tree |-> tree, res |-> Err("reference 'refs/heads/main' not found")]
    ELSE IF rem[Len(rem)] \in Ancestors(Unwrap(Tip(tree.commits)))
    THEN [tree |-> tree, res |-> Ok(Unit)]
    ELSE Merge(tree, Unwrap(Tip(tree.commits)), rem[Len(rem)], rem, fault)

\* The three outcomes of pull after the fetch, by merge analysis of the
\* fetched commit against HEAD.  A fast-forward of a branch without a
\* commit fails: its reference does not exist.
MergeAnalysis(tree, rem, fault) ==
    Let(rem[Len(rem)], LAMBDA fetch_commit :
        IF tree.commits = <<>>
        THEN [tree |-> tree, res |-> Err("reference 'refs/heads/main' not found")]
        ELSE IF fetch_commit \in Ancestors(Unwrap(Tip(tree.commits)))
        THEN [tree |-> tree, res |-> Ok(Unit)]
        ELSE IF Unwrap(Tip(tree.commits)) \in Ancestors(fetch_commit)
        THEN [tree |-> [tree EXCEPT !.commits = rem,
                                    !.fs = [@ EXCEPT ![BookmarksFile] = fetch_commit.blob],
                                    !.index = fetch_commit.blob],
              res |-> Ok(Unit)]
        ELSE Merge(tree, Unwrap(Tip(tree.commits)), fetch_commit, rem, fault))

\* pull: fetch the branch (which fails when the remote does not have it),
\* then what the merge analysis says.
GitPull(tree, rem, fault) ==
    IF fault = "pull" \/ ~IsSome(rem) \/ Unwrap(rem) = <<>>
    THEN [tree |-> tree, res |-> Err("Failed to fetch from remote")]
    ELSE MergeAnalysis(tree, Unwrap(rem), fault)

(***************************************************************************)
(* main.rs: the session.  Each handler is an operator from the request and *)
(* what the environment decides during the call (the point of failure, the *)
(* bytes OsRng yields, the history found behind the URL) to the session,   *)
(* disk and Keychain afterwards and the response sent.                     *)
(***************************************************************************)
Success(data) == [type |-> "success", code |-> None, data |-> data]
Error(code) == [type |-> "error", code |-> Some(code), data |-> None]
Exchange(op, req, fault, asked, r) ==
    [op |-> op, req |-> req, fault |-> fault, asked |-> asked] @@ r

\* What a handler starts from.
Now ==
    [dirs |-> dirs, wt |-> wt, remote |-> remote, repo_path |-> repo_path,
     encryption_enabled |-> encryption_enabled, keychain |-> keychain,
     encSource |-> encSource, resp |-> resp]

\* config.get_repo_path() as the directory it names and the tree there
RepoDir == canonicalize(Unwrap(repo_path), dirs).val
RepoTree == wt[RepoDir]
BookmarksOnDisk == RepoTree.fs[BookmarksFile]

\* The record of the document encrypted in place is dropped when the file
\* it speaks of is written anew.
Forget(src) == IF IsSome(src) /\ Unwrap(src).at = RepoDir THEN None ELSE src

\* format!("Update bookmarks: {} bookmarks, {} tags", ..): a message is the
\* sequence of its pieces.
CommitMessage(d) ==
    <<"Update bookmarks: ", ToString(Len(get_bookmarks(d))), " bookmarks, ",
      ToString(Len(get_tags(d))), " tags">>

\* json!({"encryption_enabled": b})
EncryptionFlagJson(b) == JObj([encryption_enabled |-> JBool(b)])

\* What can go wrong during a call: "denied" the Keychain lookup fails
\* (Touch ID refused), "locked" the Keychain takes no change, "store" the
\* add-generic-password command fails, "delete" the item cannot be deleted,
\* the ReplaceFaults of the atomic write, and the git steps.
Granted(fault) == fault \notin {"denied", "locked"}
ReplaceFault(fault) == IF fault \in ReplaceFaults THEN fault ELSE "none"

\* delete_key_from_keychain
delete_key_from_keychain(kc, fault) == IF fault \in {"locked", "delete"} THEN kc ELSE None

\* store_key_in_keychain: the existing item is deleted, the new one added.
store_key_in_keychain(key, kc, fault) ==
    IF fault = "locked"
    THEN [keychain |-> kc, res |-> Err("Failed to store key in Keychain")]
    ELSE IF fault = "store"
    THEN [keychain |-> delete_key_from_keychain(kc, "none"),
          res |-> Err("Failed to store key in Keychain")]
    ELSE [keychain |-> Some(B64Encode(key)), res |-> Ok(Unit)]

\* generate_and_store_key; key is the 32 bytes OsRng yields.
generate_and_store_key(key, kc, fault) == store_key_in_keychain(key, kc, fault)

\* The repository handle_init ends with: cloned when a URL is given (from
\* the history already known behind it, or the one found now), else
\* initialized or opened.
InitRepository(path, ds, url, history, fault) ==
    IF IsSome(url)
    THEN GitClone(path, ds, wt, IF IsSome(remote) THEN Unwrap(remote) ELSE history, fault)
    ELSE GitInit(path, ds, wt, fault)

\* Mutation: a successful Init starts the session's configuration afresh.
HandleInitResetsFlag(p, url, history, fault) ==
    Let(validate_repo_path(IF IsSome(p) THEN Unwrap(p) ELSE DefaultRepo, dirs), LAMBDA v :
        IF ~v.res.ok
        THEN [Now EXCEPT
                !.dirs = v.dirs,
                !.resp = Exchange("Init", [repo_path |-> p, repo_url |-> url], fault,
                                  FALSE, Error("ERR_INVALID_PATH"))]
        ELSE Let(InitRepository(v.res.val, v.dirs, url, history, fault), LAMBDA g :
             [Now EXCEPT
                !.dirs = g.dirs,
                !.wt = g.wt,
                !.remote = IF IsSome(url) /\ g.res.ok
                           THEN Some(g.wt[canonicalize(g.res.val, g.dirs).val].commits)
                           ELSE @,
                !.repo_path = IF g.res.ok THEN Some(g.res.val) ELSE @,
                !.encryption_enabled = IF g.res.ok THEN FALSE ELSE @,
                !.resp = Exchange("Init", [repo_path |-> p, repo_url |-> url], fault, FALSE,
                                  IF g.res.ok THEN Success(None)
                                  ELSE IF IsSome(url) THEN Error("ERR_CLONE")
                                  ELSE Error("ERR_INIT"))]))

handle_init(p, url, history, fault) ==
    Let(validate_repo_path(IF IsSome(p) THEN Unwrap(p) ELSE DefaultRepo, dirs), LAMBDA v :
        IF ~v.res.ok
        THEN [Now EXCEPT
                !.dirs = v.dirs,
                !.resp = Exchange("Init", [repo_path |-> p, repo_url |-> url], fault,
                                  FALSE, Error("ERR_INVALID_PATH"))]
        ELSE Let(InitRepository(v.res.val, v.dirs, url, history, fault), LAMBDA g :
             [Now EXCEPT
                !.dirs = g.dirs,
                !.wt = g.wt,
                !.remote = IF IsSome(url) /\ g.res.ok
                           THEN Some(g.wt[canonicalize(g.res.val, g.dirs).val].commits)
                           ELSE @,
                !.repo_path = IF g.res.ok THEN Some(g.res.val) ELSE @,
                !.resp = Exchange("Init", [repo_path |-> p, repo_url |-> url], fault, FALSE,
                                  IF g.res.ok THEN Success(None)
                                  ELSE IF IsSome(url) THEN Error("ERR_CLONE")
                                  ELSE Error("ERR_INIT"))]))

\* Mutation: a Write that fails at the commit or at the push is rolled back:
\* the working tree is put back as it was before the request.
CommitAndPushRollsBack(written, w, data, d, fault) ==
    IF ~GitInit(Unwrap(repo_path), dirs, wt, fault).res.ok \/ fault \in {"add", "commit"}
    THEN [Now EXCEPT
            !.wt[RepoDir] = IF fault = "commit" THEN RepoTree ELSE written,
            !.encSource = Forget(@),
            !.resp = Exchange("Write", Some(data), fault, w.res.asked,
                         Error(IF fault \in {"open", "init"} THEN "ERR_OPEN_REPO"
                               ELSE IF fault = "add" THEN "ERR_GIT_ADD"
                               ELSE "ERR_GIT_COMMIT"))]
    ELSE Let(GitCommit(GitAdd(written), CommitMessage(d)), LAMBDA committed :
         IF ~committed.origin
         THEN [Now EXCEPT
                 !.wt[RepoDir] = committed,
                 !.encSource = Forget(@),
                 !.resp = Exchange("Write", Some(data), fault, w.res.asked, Success(None))]
         ELSE Let(GitPush(committed, remote, fault), LAMBDA pushed :
              [Now EXCEPT
                 !.wt[RepoDir] = IF pushed.res.ok THEN committed ELSE RepoTree,
                 !.remote = pushed.remote,
                 !.encSource = Forget(@),
                 !.resp = Exchange("Write", Some(data), fault, w.res.asked,
                              IF pushed.res.ok THEN Success(None)
                              ELSE Error("ERR_GIT_PUSH"))]))

\* The git half of handle_write, once the file is written: open, add,
\* commit, push when origin is configured.
CommitAndPush(written, w, data, d, fault) ==
    IF ~GitInit(Unwrap(repo_path), dirs, wt, fault).res.ok \/ fault \in {"add", "commit"}
    THEN [Now EXCEPT
            !.wt[RepoDir] = IF fault = "commit" THEN GitAdd(written) ELSE written,
            !.encSource = Forget(@),
            !.resp = Exchange("Write", Some(data), fault, w.res.asked,
                         Error(IF fault \in {"open", "init"} THEN "ERR_OPEN_REPO"
                               ELSE IF fault = "add" THEN "ERR_GIT_ADD"
                               ELSE "ERR_GIT_COMMIT"))]
    ELSE Let(GitCommit(GitAdd(written), CommitMessage(d)), LAMBDA committed :
         IF ~committed.origin
         THEN [Now EXCEPT
                 !.wt[RepoDir] = committed,
                 !.encSource = Forget(@),
                 !.resp = Exchange("Write", Some(data), fault, w.res.asked, Success(None))]
         ELSE Let(GitPush(committed, remote, fault), LAMBDA pushed :
              [Now EXCEPT
                 !.wt[RepoDir] = committed,
                 !.remote = pushed.remote,
                 !.encSource = Forget(@),
                 !.resp = Exchange("Write", Some(data), fault, w.res.asked,
                              IF pushed.res.ok THEN Success(None)
                              ELSE Error("ERR_GIT_PUSH"))]))

\* Mutation: the file is written before the document is validated.
HandleWriteValidatesLate(data, fault, nonce) ==
    Let(Deserialize(data), LAMBDA parsed :
        IF ~IsSome(repo_path) \/ ~parsed.ok
        THEN [Now EXCEPT !.resp = Exchange("Write", Some(data), fault, FALSE,
                                           Error(IF IsSome(repo_path) THEN "ERR_PARSE"
                                                 ELSE "ERR_NOT_INITIALIZED"))]
        ELSE Let(write_to_file(RepoTree.fs, BookmarksFile, parsed.val, ReplaceFault(fault)),
                 LAMBDA w :
             IF ~w.res.ok
             THEN [Now EXCEPT !.wt[RepoDir].fs = w.fs,
                              !.resp = Exchange("Write", Some(data), fault, FALSE,
                                                Error("ERR_WRITE_FILE"))]
             ELSE IF ~Validate(parsed.val).ok
             THEN [Now EXCEPT !.wt[RepoDir].fs = w.fs,
                              !.resp = Exchange("Write", Some(data), fault, FALSE,
                                                Error("ERR_VALIDATE"))]
             ELSE CommitAndPush([RepoTree EXCEPT !.fs = w.fs], w, data, parsed.val, fault)))

\* Mutation: the file keeps the shape it had: an encrypted file is written
\* encrypted whatever the flag.
HandleWriteKeepsShape(data, fault, nonce) ==
    IF ~IsSome(repo_path)
    THEN [Now EXCEPT !.resp = Exchange("Write", Some(data), fault, FALSE,
                                       Error("ERR_NOT_INITIALIZED"))]
    ELSE Let(Deserialize(data), LAMBDA parsed :
         IF ~parsed.ok
         THEN [Now EXCEPT !.resp = Exchange("Write", Some(data), fault, FALSE,
                                            Error("ERR_PARSE"))]
         ELSE IF ~Validate(parsed.val).ok
         THEN [Now EXCEPT !.resp = Exchange("Write", Some(data), fault, FALSE,
                                            Error("ERR_VALIDATE"))]
         ELSE Let(write_to_file_with_encryption(RepoTree.fs, BookmarksFile, parsed.val,
                      encryption_enabled \/ unwrap_or(is_encrypted(BookmarksOnDisk), FALSE),
                      macos, keychain, Granted(fault), nonce,
                      ReplaceFault(fault)), LAMBDA w :
              IF ~w.res.ok
              THEN [Now EXCEPT
                      !.wt[RepoDir].fs = w.fs,
                      !.resp = Exchange("Write", Some(data), fault, w.res.asked,
                                        Error("ERR_WRITE_FILE"))]
              ELSE CommitAndPush([RepoTree EXCEPT !.fs = w.fs], w, data, parsed.val, fault)))

handle_write(data, fault, nonce) ==
    IF ~IsSome(repo_path)
    THEN [Now EXCEPT !.resp = Exchange("Write", Some(data), fault, FALSE,
                                       Error("ERR_NOT_INITIALIZED"))]
    ELSE Let(Deserialize(data), LAMBDA parsed :
         IF ~parsed.ok
         THEN [Now EXCEPT !.resp = Exchange("Write", Some(data), fault, FALSE,
                                            Error("ERR_PARSE"))]
         ELSE IF ~Validate(parsed.val).ok
         THEN [Now EXCEPT !.resp = Exchange("Write", Some(data), fault, FALSE,
                                            Error("ERR_VALIDATE"))]
         ELSE Let(write_to_file_with_encryption(RepoTree.fs, BookmarksFile, parsed.val,
                      encryption_enabled, macos, keychain, Granted(fault), nonce,
                      ReplaceFault(fault)), LAMBDA w :
              IF ~w.res.ok
              THEN [Now EXCEPT
                      !.wt[RepoDir].fs = w.fs,
                      !.resp = Exchange("Write", Some(data), fault, w.res.asked,
                                        Error("ERR_WRITE_FILE"))]
              ELSE CommitAndPush([RepoTree EXCEPT !.fs = w.fs], w, data, parsed.val, fault)))

handle_read(fault) ==
    IF ~IsSome(repo_path)
    THEN [Now EXCEPT !.resp = Exchange("Read", None, fault, FALSE,
                                       Error("ERR_NOT_INITIALIZED"))]
    ELSE IF ~IsSome(BookmarksOnDisk)
    THEN [Now EXCEPT !.resp = Exchange("Read", None, fault, FALSE,
                                       Success(Some(Serialize(NewBookmarksData))))]
    ELSE Let(read_from_file_with_encryption(BookmarksOnDisk, encryption_enabled,
                 macos, keychain, Granted(fault)), LAMBDA r :
         [Now EXCEPT !.resp = Exchange("Read", None, fault, r.asked,
                                  IF r.ok THEN Success(Some(Serialize(r.val)))
                                  ELSE Error("ERR_READ_FILE"))])

\* Mutation: without a repository path handle_sync goes on with the
\* default repository.
HandleSyncDefaultRepo(fault) ==
    Let(GitInit(AllowedBase \o DefaultRepo.comps, dirs, wt, fault), LAMBDA g :
        [Now EXCEPT !.dirs = g.dirs, !.wt = g.wt,
                    !.resp = Exchange("Sync", None, fault, FALSE,
                                      IF g.res.ok THEN Error("ERR_NO_REMOTE")
                                      ELSE Error("ERR_OPEN_REPO"))])

\* The pull of handle_sync, with the repository open.
PullOrigin(g, at, fault) ==
    IF ~g.wt[at].origin
    THEN [Now EXCEPT !.dirs = g.dirs, !.wt = g.wt,
                     !.resp = Exchange("Sync", None, fault, FALSE, Error("ERR_NO_REMOTE"))]
    ELSE Let(GitPull(g.wt[at], remote, fault), LAMBDA pulled :
         [Now EXCEPT !.dirs = g.dirs,
                     !.wt = [g.wt EXCEPT ![at] = pulled.tree],
                     !.encSource = IF pulled.tree.fs = g.wt[at].fs THEN @ ELSE Forget(@),
                     !.resp = Exchange("Sync", None, fault, FALSE,
                                       IF pulled.res.ok THEN Success(None)
                                       ELSE Error("ERR_GIT_PULL"))])

handle_sync(fault) ==
    IF ~IsSome(repo_path)
    THEN [Now EXCEPT !.resp = Exchange("Sync", None, fault, FALSE,
                                       Error("ERR_NOT_INITIALIZED"))]
    ELSE Let(GitInit(Unwrap(repo_path), dirs, wt, fault), LAMBDA g :
         IF ~g.res.ok
         THEN [Now EXCEPT !.resp = Exchange("Sync", None, fault, FALSE,
                                            Error("ERR_OPEN_REPO"))]
         ELSE PullOrigin(g, canonicalize(Unwrap(repo_path), g.dirs).val, fault))

\* Mutation: the file encrypted in place is staged and committed.
EncryptInPlaceCommitted(kc, nonce, fault) ==
    Let(is_encrypted(BookmarksOnDisk), LAMBDA enc :
        IF ~enc.ok
        THEN [Now EXCEPT
                !.keychain = kc,
                !.resp = Exchange("EnableEncryption", None, fault, FALSE,
                                  Error("ERR_CHECK_ENCRYPTION"))]
        ELSE IF enc.val
        THEN [Now EXCEPT
                !.keychain = kc,
                !.encryption_enabled = TRUE,
                !.resp = Exchange("EnableEncryption", None, fault, FALSE,
                                  Success(Some(EncryptionFlagJson(TRUE))))]
        ELSE Let(read_from_file(BookmarksOnDisk), LAMBDA plain :
             IF ~plain.ok
             THEN [Now EXCEPT
                     !.keychain = kc,
                     !.resp = Exchange("EnableEncryption", None, fault, FALSE,
                                       Error("ERR_READ_FOR_ENCRYPT"))]
             ELSE Let(write_to_file_with_encryption(RepoTree.fs, BookmarksFile, plain.val,
                          TRUE, macos, kc, Granted(fault), nonce, ReplaceFault(fault)),
                      LAMBDA w :
                  IF ~w.res.ok
                  THEN [Now EXCEPT
                          !.keychain = kc,
                          !.wt[RepoDir].fs = w.fs,
                          !.resp = Exchange("EnableEncryption", None, fault, w.res.asked,
                                            Error("ERR_ENCRYPT"))]
                  ELSE [Now EXCEPT
                          !.keychain = kc,
                          !.wt[RepoDir] =
                              GitCommit([RepoTree EXCEPT !.fs = w.fs,
                                                         !.index = w.fs[BookmarksFile]],
                                        <<"Enable encryption">>),
                          !.encryption_enabled = TRUE,
                          !.encSource = Some([at |-> RepoDir, doc |-> plain.val]),
                          !.resp = Exchange("EnableEncryption", None, fault, w.res.asked,
                                            Success(Some(EncryptionFlagJson(TRUE))))])))

\* The file half of handle_enable_encryption, with the new key kc stored:
\* a plaintext file is read and written back encrypted.
EncryptInPlace(kc, nonce, fault) ==
    Let(is_encrypted(BookmarksOnDisk), LAMBDA enc :
        IF ~enc.ok
        THEN [Now EXCEPT
                !.keychain = kc,
                !.resp = Exchange("EnableEncryption", None, fault, FALSE,
                                  Error("ERR_CHECK_ENCRYPTION"))]
        ELSE IF enc.val
        THEN [Now EXCEPT
                !.keychain = kc,
                !.encryption_enabled = TRUE,
                !.resp = Exchange("EnableEncryption", None, fault, FALSE,
                                  Success(Some(EncryptionFlagJson(TRUE))))]
        ELSE Let(read_from_file(BookmarksOnDisk), LAMBDA plain :
             IF ~plain.ok
             THEN [Now EXCEPT
                     !.keychain = kc,
                     !.resp = Exchange("EnableEncryption", None, fault, FALSE,
                                       Error("ERR_READ_FOR_ENCRYPT"))]
             ELSE Let(write_to_file_with_encryption(RepoTree.fs, BookmarksFile, plain.val,
                          TRUE, macos, kc, Granted(fault), nonce, ReplaceFault(fault)),
                      LAMBDA w :
                  IF ~w.res.ok
                  THEN [Now EXCEPT
                          !.keychain = kc,
                          !.wt[RepoDir].fs = w.fs,
                          !.resp = Exchange("EnableEncryption", None, fault, w.res.asked,
                                            Error("ERR_ENCRYPT"))]
                  ELSE [Now EXCEPT
                          !.keychain = kc,
                          !.wt[RepoDir].fs = w.fs,
                          !.encryption_enabled = TRUE,
                          !.encSource = Some([at |-> RepoDir, doc |-> plain.val]),
                          !.resp = Exchange("EnableEncryption", None, fault, w.res.asked,
                                            Success(Some(EncryptionFlagJson(TRUE))))])))

handle_enable_encryption(key, nonce, fault) ==
    IF ~macos
    THEN [Now EXCEPT !.resp = Exchange("EnableEncryption", None, fault, FALSE,
                                       Error("ERR_PLATFORM_NOT_SUPPORTED"))]
    ELSE Let(generate_and_store_key(key, keychain, fault), LAMBDA stored :
         IF ~stored.res.ok
         THEN [Now EXCEPT
                 !.keychain = stored.keychain,
                 !.resp = Exchange("EnableEncryption", None, fault, FALSE,
                                   Error("ERR_KEYGEN"))]
         ELSE IF ~IsSome(repo_path)
         THEN [Now EXCEPT
                 !.keychain = stored.keychain,
                 !.resp = Exchange("EnableEncryption", None, fault, FALSE,
                                   Error("ERR_NOT_INITIALIZED"))]
         ELSE IF ~IsSome(BookmarksOnDisk)
         THEN [Now EXCEPT
                 !.keychain = stored.keychain,
                 !.encryption_enabled = TRUE,
                 !.resp = Exchange("EnableEncryption", None, fault, FALSE,
                                   Success(Some(EncryptionFlagJson(TRUE))))]
         ELSE EncryptInPlace(stored.keychain, nonce, fault))

\* Mutation: a key that cannot be deleted fails the request.
DisableDoneOrFail(out, fault, asked) ==
    IF fault = "delete"
    THEN [out EXCEPT !.resp = Exchange("DisableEncryption", None, fault, asked,
                                       Error("ERR_DELETE_KEY"))]
    ELSE [out EXCEPT
            !.keychain = None,
            !.encryption_enabled = FALSE,
            !.resp = Exchange("DisableEncryption", None, fault, asked,
                              Success(Some(EncryptionFlagJson(FALSE))))]

\* The end of handle_disable_encryption: the key is deleted (a failure to
\* is only logged) and the flag cleared.
DisableDone(out, fault, asked) ==
    [out EXCEPT
        !.keychain = delete_key_from_keychain(@, fault),
        !.encryption_enabled = FALSE,
        !.resp = Exchange("DisableEncryption", None, fault, asked,
                          Success(Some(EncryptionFlagJson(FALSE))))]

\* The file half of handle_disable_encryption: an encrypted file is read
\* and written back in plain text.
DecryptInPlace(fault) ==
    Let(is_encrypted(BookmarksOnDisk), LAMBDA enc :
        IF ~enc.ok
        THEN [Now EXCEPT !.resp = Exchange("DisableEncryption", None, fault, FALSE,
                                           Error("ERR_CHECK_ENCRYPTION"))]
        ELSE IF ~enc.val THEN DisableDone(Now, fault, FALSE)
        ELSE Let(read_from_file_with_encryption(BookmarksOnDisk, TRUE, macos, keychain,
                                                Granted(fault)), LAMBDA r :
             IF ~r.ok
             THEN [Now EXCEPT !.resp = Exchange("DisableEncryption", None, fault, r.asked,
                                                Error("ERR_DECRYPT"))]
             ELSE Let(write_to_file(RepoTree.fs, BookmarksFile, r.val, ReplaceFault(fault)),
                      LAMBDA w :
                  IF ~w.res.ok
                  THEN [Now EXCEPT
                          !.wt[RepoDir].fs = w.fs,
                          !.resp = Exchange("DisableEncryption", None, fault, r.asked,
                                            Error("ERR_WRITE_DECRYPT"))]
                  ELSE DisableDone([Now EXCEPT !.wt[RepoDir].fs = w.fs], fault, r.asked))))

handle_disable_encryption(fault) ==
    IF ~macos
    THEN [Now EXCEPT
            !.encryption_enabled = FALSE,
            !.resp = Exchange("DisableEncryption", None, fault, FALSE, Success(None))]
    ELSE IF ~IsSome(repo_path)
    THEN [Now EXCEPT !.resp = Exchange("DisableEncryption", None, fault, FALSE,
                                       Error("ERR_NOT_INITIALIZED"))]
    ELSE IF ~IsSome(BookmarksOnDisk) THEN DisableDone(Now, fault, FALSE)
    ELSE DecryptInPlace(fault)

(***************************************************************************)
(* The session specification: requests in any order, on either platform.   *)
(***************************************************************************)
RemoteUrl == "https://github.com/user/bookmarks.git"
OutsideDir == <<"other">>
InitialDirs == {<<>>, OutsideDir}

SessionPaths == {None, Some(PathBuf(FALSE, <<"..", "other">>))}
SessionUrls == {None, Some(RemoteUrl)}
RemoteHistories ==
    { <<>> } \cup
    { <<Commit(<<"remote">>, Some(c), <<>>)>> :
        c \in { to_string_pretty(Serialize(DocFtp)),
                EnvelopeOf(DocFtp, Key(1), Nonce(1)) } }
SessionWrites ==
    { Serialize(DocOne), Serialize(DocFtp),
      JObj([jsonapi |-> JObj([version |-> JStr("1.1")])]) }

InitFaults == {"none", "clone"}
WriteFaults == {"none", "denied", "push"}
ReadFaults == {"none", "denied"}
EnableFaults == {"none", "store", "denied"}
DisableFaults == {"none", "denied", "delete"}

InitSession ==
    /\ HostIdle
    /\ DocIdle
    /\ StorageIdle
    /\ macos \in BOOLEAN
    /\ keychain = None
    /\ dirs = InitialDirs
    /\ wt = <<>>
    /\ remote = None
    /\ repo_path = None
    /\ encryption_enabled = FALSE
    /\ resp = [NoResponse EXCEPT !.op = "start"]
    /\ encSource = None

\* At most MaxCommits commits in every working tree.
WithinCommitCap(trees) == \A at \in DOMAIN trees : Len(trees[at].commits) <= MaxCommits

\* The handler's outcome becomes the state.
Becomes(out) ==
    /\ dirs' = out.dirs
    /\ wt' = out.wt
    /\ remote' = out.remote
    /\ repo_path' = out.repo_path
    /\ encryption_enabled' = out.encryption_enabled
    /\ keychain' = out.keychain
    /\ encSource' = out.encSource
    /\ resp' = out.resp

Handled(out) == WithinCommitCap(out.wt) /\ Becomes(out)

HandleInit(p, url, history, fault) ==
    /\ \E out \in {handle_init(p, url, history, fault)} : Handled(out)
    /\ UNCHANGED <<docVars, macos, storageVars, hostVars>>

HandleWrite(data, fault, nonce) ==
    /\ \E out \in {handle_write(data, fault, nonce)} : Handled(out)
    /\ UNCHANGED <<docVars, macos, storageVars, hostVars>>

HandleRead(fault) ==
    /\ \E out \in {handle_read(fault)} : Handled(out)
    /\ UNCHANGED <<docVars, macos, storageVars, hostVars>>

HandleEnableEncryption(key, nonce, fault) ==
    /\ \E out \in {handle_enable_encryption(key, nonce, fault)} : Handled(out)
    /\ UNCHANGED <<docVars, macos, storageVars, hostVars>>

HandleDisableEncryption(fault) ==
    /\ \E out \in {handle_disable_encryption(fault)} : Handled(out)
    /\ UNCHANGED <<docVars, macos, storageVars, hostVars>>

\* The browser closes the host and starts it again: a new HostConfig; the
\* disk and the Keychain are as they were left.
Restart ==
    /\ resp.op # "start"
    /\ repo_path' = None
    /\ encryption_enabled' = FALSE
    /\ resp' = [NoResponse EXCEPT !.op = "start"]
    /\ UNCHANGED <<docVars, envVars, storageVars, diskVars, encSource, hostVars>>

Next ==
    \/ \E p \in SessionPaths, url \in SessionUrls, h \in RemoteHistories, f \in InitFaults :
          HandleInit(p, url, h, f)
    \/ \E data \in SessionWrites, f \in WriteFaults, n \in Nonces : HandleWrite(data, f, n)
    \/ \E f \in ReadFaults : HandleRead(f)
    \/ \E k \in Keys, n \in Nonces, f \in EnableFaults : HandleEnableEncryption(k, n, f)
    \/ \E f \in DisableFaults : HandleDisableEncryption(f)
    \/ Restart

Spec == InitSession /\ [][Next]_vars

(***************************************************************************)
(* The Init specification: Init requests with paths of every kind, and     *)
(* restarts.                                                               *)
(***************************************************************************)
InitPaths ==
    { None,
      Some(PathBuf(FALSE, <<"repo">>)),
      Some(PathBuf(TRUE, <<"webtags", "repo">>)),
      Some(PathBuf(FALSE, <<"..", "other">>)),
      Some(PathBuf(TRUE, <<"other", "new">>)),
      Some(PathBuf(TRUE, <<"other", "deep", "new">>)),
      Some(PathBuf(FALSE, <<"..", "other", "deep", "new">>)) }

\* The repository behind the URL is empty.
InitHistories == { <<>> }

NextInit ==
    \/ \E p \in InitPaths, url \in SessionUrls, h \in InitHistories, f \in InitFaults :
          HandleInit(p, url, h, f)
    \/ Restart

SpecInit == InitSession /\ [][NextInit]_vars

(***************************************************************************)
(* The Sync specification: Init, Write, Read and Sync requests on          *)
(* repositories with and without a remote, and restarts.                   *)
(***************************************************************************)
SyncWrites == { Serialize(DocOne), Serialize(DocFtp) }
SyncFaults == {"none", "open", "pull"}

HandleSync(fault) ==
    /\ \E out \in {handle_sync(fault)} : Handled(out)
    /\ UNCHANGED <<docVars, macos, storageVars, hostVars>>

NextSync ==
    \/ \E p \in SessionPaths, url \in SessionUrls, h \in RemoteHistories :
          HandleInit(p, url, h, "none")
    \/ \E data \in SyncWrites, f \in {"none", "push"}, n \in Nonces : HandleWrite(data, f, n)
    \/ HandleRead("none")
    \/ \E f \in SyncFaults : HandleSync(f)
    \/ Restart

SpecSync == InitSession /\ [][NextSync]_vars

(***************************************************************************)
(* The Write specification: one repository, with or without a remote;      *)
(* Write with every point of failure, Read and restarts, with histories of *)
(* up to MaxHistory commits and the merges of them.                        *)
(***************************************************************************)
DocIncludedBookmark ==
    BookmarksData("1.1", <<>>, Some(<<Bookmark("bookmark-2", UrlHttps, TitleOk, None)>>))

PipelineWrites ==
    { Serialize(DocOne), Serialize(DocIncludedBookmark), Serialize(DocFtp),
      JObj([jsonapi |-> JObj([version |-> JStr("1.1")])]) }
PipelineFaults == {"none", "create", "write", "rename", "open", "add", "commit", "push"}

\* The commits of a history that a Write made.
Written(commits) == SelectSeq(commits, LAMBDA c : c.message[1] = "Update bookmarks: ")

Within(out) ==
    /\ \A at \in DOMAIN out.wt : Len(Written(out.wt[at].commits)) <= MaxHistory
    /\ Becomes(out)
    /\ UNCHANGED <<docVars, macos, storageVars, hostVars>>

InitRequest(p, url, history) == \E out \in {handle_init(p, url, history, "none")} : Within(out)
WriteRequest(data, fault) == \E out \in {handle_write(data, fault, Nonce(1))} : Within(out)
ReadRequest == \E out \in {handle_read("none")} : Within(out)
SyncRequest(fault) == \E out \in {handle_sync(fault)} : Within(out)

InitPlain == InitSession /\ ~macos

NextWrite ==
    \/ \E url \in SessionUrls : InitRequest(None, url, <<>>)
    \/ \E data \in PipelineWrites, f \in PipelineFaults : WriteRequest(data, f)
    \/ ReadRequest
    \/ Restart

SpecWrite == InitPlain /\ [][NextWrite]_vars

(***************************************************************************)
(* The Pull specification: up to two clones of one remote, each written    *)
(* to, pushed from and synced.                                             *)
(***************************************************************************)
PullPaths == { None, Some(PathBuf(FALSE, <<"repo">>)) }
PullWrites == { Serialize(DocOne), Serialize(DocIncludedBookmark) }
PullFaults == {"none", "open", "pull", "apart", "commit"}
PullHistories ==
    { <<>> } \cup
    { <<Commit(<<"remote">>, Some(to_string_pretty(Serialize(d))), <<>>)>> :
        d \in {DocEmpty, DocOne} }

NextPull ==
    \/ \E p \in PullPaths, url \in SessionUrls, h \in PullHistories : InitRequest(p, url, h)
    \/ \E data \in PullWrites, f \in {"none", "push"} : WriteRequest(data, f)
    \/ ReadRequest
    \/ \E f \in PullFaults : SyncRequest(f)
    \/ Restart

SpecPull == InitPlain /\ [][NextPull]_vars

(***************************************************************************)
(* The key specification: Init, Write, EnableEncryption and                *)
(* DisableEncryption on either platform, with every point at which         *)
(* DisableEncryption can fail.                                             *)
(***************************************************************************)
KeyDisableFaults == {"none", "denied", "delete"} \cup ReplaceFaults
KeyWrites == { Serialize(DocOne) }

NextKey ==
    \/ \E url \in SessionUrls, h \in RemoteHistories : HandleInit(None, url, h, "none")
    \/ \E data \in KeyWrites, n \in Nonces : HandleWrite(data, "none", n)
    \/ \E k \in Keys, n \in Nonces, f \in EnableFaults : HandleEnableEncryption(k, n, f)
    \/ \E f \in KeyDisableFaults : HandleDisableEncryption(f)
    \/ Restart

SpecKey == InitSession /\ [][NextKey]_vars

(***************************************************************************)
(* The shape specification: Writes, up to MaxHistory of them, in sessions  *)
(* that turn encryption on and off and are restarted in between.           *)
(***************************************************************************)
EnableRequest(key, fault) ==
    \E out \in {handle_enable_encryption(key, Nonce(1), fault)} : Within(out)
DisableRequest(fault) == \E out \in {handle_disable_encryption(fault)} : Within(out)

NextShape ==
    \/ InitRequest(None, None, <<>>)
    \/ \E data \in PullWrites, f \in {"none", "denied", "commit"} : WriteRequest(data, f)
    \/ ReadRequest
    \/ \E k \in Keys, f \in {"none", "denied"} : EnableRequest(k, f)
    \/ \E f \in {"none", "denied"} : DisableRequest(f)
    \/ Restart

SpecShape == InitSession /\ [][NextShape]_vars

(***************************************************************************)
(* The tip specification: on macOS, two working trees behind one remote,   *)
(* with Writes whose push can fail, Syncs, and encryption turned on and    *)
(* off in between.                                                         *)
(***************************************************************************)
InitTip == InitSession /\ macos

TipHistory == <<Commit(<<"remote">>, Some(to_string_pretty(Serialize(DocEmpty))), <<>>)>>
TipClonePath == Some(PathBuf(FALSE, <<"repo">>))
TipCloneUrl == Some(RemoteUrl)
TipKey == Key(1)

NextTip ==
    \/ \E url \in SessionUrls : InitRequest(None, url, TipHistory)
    \/ InitRequest(TipClonePath, TipCloneUrl, TipHistory)
    \/ \E data \in KeyWrites, f \in {"none", "push"} : WriteRequest(data, f)
    \/ EnableRequest(TipKey, "none")
    \/ DisableRequest("none")
    \/ SyncRequest("none")

SpecTip == InitTip /\ [][NextTip]_vars

(***************************************************************************)
(* The platform specification: a build that is not for macOS.  The         *)
(* requests of a session, and beside them calls of                         *)
(* write_to_file_with_encryption with either value of its flag.            *)
(***************************************************************************)
InitPlatform ==
    /\ HostIdle
    /\ DocIdle
    /\ macos = FALSE
    /\ keychain = None
    /\ sfs \in { [NoFiles EXCEPT ![BookmarksFile] = f] :
                   f \in {None, Some(to_string_pretty(Serialize(DocIncludedEmpty)))} }
    /\ spc = "idle"
    /\ sjob = None
    /\ slast = None
    /\ dirs = InitialDirs
    /\ wt = <<>>
    /\ remote = None
    /\ repo_path = None
    /\ encryption_enabled = FALSE
    /\ resp = [NoResponse EXCEPT !.op = "start"]
    /\ encSource = None

NextPlatform ==
    \/ \E url \in SessionUrls, h \in RemoteHistories : HandleInit(None, url, h, "none")
    \/ \E data \in KeyWrites, n \in Nonces : HandleWrite(data, "none", n)
    \/ \E k \in Keys, n \in Nonces, f \in EnableFaults : HandleEnableEncryption(k, n, f)
    \/ \E e \in BOOLEAN, granted \in BOOLEAN, n \in Nonces : WriteBegin(DocOne, e, granted, n)
    \/ \E fails \in BOOLEAN : WriteCreate(fails)
    \/ \E fails \in BOOLEAN : WriteFill(fails)
    \/ \E fails \in BOOLEAN : WriteRename(fails)

SpecPlatform == InitPlatform /\ [][NextPlatform]_vars

(***************************************************************************)
(* messaging.rs: the transport, and the main loop of main.rs over it.      *)
(***************************************************************************)
\* The longest message read_message takes, in bytes.
MaxMessageLength == 1000000

\* A frame on standard input: whether its 4-byte length prefix arrived, the
\* length the prefix announces, whether that many bytes follow, and the
\* body: Option of the JSON value the bytes are the text of (None: not JSON).
Frame(length, body) == [prefix |-> TRUE, length |-> length, whole |-> TRUE, body |-> body]
Request(fields) == Frame(2, Some(JObj(fields)))

\* Deserialize for Message: an internally tagged enum (tag "type") whose
\* variant names are lowercased.  Option fields may be absent or null, other
\* fields must be there; fields not named are ignored.
OptionString(x, k) == IF Absent(x, k) THEN None ELSE Some(x.v[k].v)
DecodeMessage(x) ==
    IF ~HasStr(x, "type") THEN Err("missing field type")
    ELSE CASE x.v.type.v = "init" ->
                IF \A k \in {"repo_path", "repo_url"} : Absent(x, k) \/ HasStr(x, k)
                THEN Ok([variant |-> "Init",
                         repo_path |-> OptionString(x, "repo_path"),
                         repo_url |-> OptionString(x, "repo_url")])
                ELSE Err("invalid type")
           [] x.v.type.v = "write" ->
                IF Has(x, "data") THEN Ok([variant |-> "Write", data |-> x.v.data])
                ELSE Err("missing field data")
           [] x.v.type.v = "read" -> Ok([variant |-> "Read"])
           [] x.v.type.v = "sync" -> Ok([variant |-> "Sync"])
           [] x.v.type.v = "auth" ->
                IF HasStr(x, "method") /\ x.v.method.v \in {"oauth", "pat"}
                   /\ (Absent(x, "token") \/ HasStr(x, "token"))
                THEN Ok([variant |-> "Auth",
                         method |-> IF x.v.method.v = "oauth" THEN "OAuth" ELSE "PAT",
                         token |-> OptionString(x, "token")])
                ELSE Err("unknown variant or missing field method")
           [] x.v.type.v = "status" -> Ok([variant |-> "Status"])
           [] OTHER -> Err("unknown variant")

\* read_message: the length prefix, the length check, the body, the parse.
\* rest is what is left on the input afterwards.
read_message(in) ==
    IF in = <<>> \/ ~Head(in).prefix
    THEN [rest |-> <<>>, res |-> Err("Failed to read message length")]
    ELSE IF Head(in).length > MaxMessageLength
    THEN [rest |-> Tail(in), res |-> Err("Message too large")]
    ELSE IF ~Head(in).whole
    THEN [rest |-> <<>>, res |-> Err("Failed to read message body")]
    ELSE IF ~IsSome(Head(in).body) \/ ~DecodeMessage(Unwrap(Head(in).body)).ok
    THEN [rest |-> Tail(in), res |-> Err("Failed to parse JSON message")]
    ELSE [rest |-> Tail(in), res |-> Ok(DecodeMessage(Unwrap(Head(in).body)).val)]

\* handle_status: what the session and the repository say about themselves.
handle_status(fault) ==
    IF ~IsSome(repo_path)
    THEN [Now EXCEPT !.resp = Exchange("Status", None, fault, FALSE,
                                       Success(Some(JObj([initialized |-> JBool(FALSE)]))))]
    ELSE Let(GitInit(Unwrap(repo_path), dirs, wt, fault), LAMBDA g :
         IF ~g.res.ok
         THEN [Now EXCEPT !.resp = Exchange("Status", None, fault, FALSE,
                                            Error("ERR_OPEN_REPO"))]
         ELSE Let(g.wt[canonicalize(Unwrap(repo_path), g.dirs).val], LAMBDA repo :
              [Now EXCEPT
                 !.dirs = g.dirs,
                 !.wt = g.wt,
                 !.resp = Exchange("Status", None, fault, FALSE,
                     Success(Some(JObj(
                        [initialized |-> JBool(TRUE),
                         repo_path |-> JStr(Unwrap(repo_path)),
                         is_clean |-> JBool(is_clean(repo)),
                         has_remote |-> JBool(repo.origin),
                         last_commit |-> IF get_last_commit_message(repo).ok
                                         THEN JStr(get_last_commit_message(repo).val)
                                         ELSE JNull,
                         encryption_enabled |-> JBool(encryption_enabled)]))))]))

\* handle_encryption_status
handle_encryption_status(fault) ==
    [Now EXCEPT !.resp = Exchange("EncryptionStatus", None, fault, FALSE,
                    Success(Some(JObj([encryption_enabled |-> JBool(encryption_enabled),
                                       platform_supported |-> JBool(macos),
                                       biometric_available |-> JBool(macos)]))))]

\* handle_auth: the device flow or the token check of the GitHub client,
\* whose answers the environment gives: with "network" the request fails,
\* with "invalid" GitHub refuses the token, with "store" it cannot be kept.
\* The token is kept in an item of its own, which the session never reads.
AuthFlow == [type |-> "authflow", code |-> None, data |-> None]
handle_auth(method, token, fault) ==
    [Now EXCEPT !.resp = Exchange("Auth", Some([method |-> method, token |-> token]),
                    fault, FALSE,
                    IF method = "OAuth"
                    THEN IF fault = "network" THEN Error("ERR_OAUTH_START") ELSE AuthFlow
                    ELSE IF ~IsSome(token) THEN Error("ERR_NO_TOKEN")
                    ELSE IF fault = "network" THEN Error("ERR_VALIDATE_TOKEN")
                    ELSE IF fault = "invalid" THEN Error("ERR_INVALID_TOKEN")
                    ELSE IF fault = "store" THEN Error("ERR_STORE_TOKEN")
                    ELSE Success(None))]

\* handle_message: one handler for each variant it names.
handle_message(m, fault, key, nonce) ==
    CASE m.variant = "Init" ->
            handle_init(m.repo_path, m.repo_url, <<>>, fault)
      [] m.variant = "Write" -> handle_write(m.data, fault, nonce)
      [] m.variant = "Read" -> handle_read(fault)
      [] m.variant = "Sync" -> handle_sync(fault)
      [] m.variant = "Auth" -> handle_auth(m.method, m.token, fault)
      [] m.variant = "Status" -> handle_status(fault)
      [] m.variant = "EnableEncryption" -> handle_enable_encryption(key, nonce, fault)
      [] m.variant = "DisableEncryption" -> handle_disable_encryption(fault)
      [] m.variant = "EncryptionStatus" -> handle_encryption_status(fault)

\* The loop of main.  "read": about to call read_message; "handle": a message
\* is decoded and its handler is to run; "write": the handler's response is
\* to be written; "report": read_message failed and the error response is
\* to be written; "stopped": the loop was left; "closed": it was left because
\* standard output took no more.
ReadMessage ==
    /\ pc = "read"
    /\ \E r \in {read_message(stdin)} :
          /\ stdin' = r.rest
          /\ pending' = Some(IF r.res.ok THEN r.res.val ELSE Error("ERR_READ_MESSAGE"))
          /\ pc' = IF r.res.ok THEN "handle" ELSE "report"
    /\ UNCHANGED <<docVars, envVars, storageVars, sessionVars, stdout>>

HandleMessage(fault, key, nonce) ==
    /\ pc = "handle"
    /\ \E out \in {handle_message(Unwrap(pending), fault, key, nonce)} :
          /\ Becomes(out)
          /\ pending' = Some([type |-> out.resp.type, code |-> out.resp.code,
                              data |-> out.resp.data])
    /\ pc' = "write"
    /\ UNCHANGED <<docVars, macos, storageVars, stdin, stdout>>

\* Mutation: the loop goes on reading after a failed read.
ReportAndReadOn(ok) ==
    /\ pc = "report"
    /\ stdout' = IF ok THEN Append(stdout, Unwrap(pending)) ELSE stdout
    /\ pending' = None
    /\ pc' = "read"
    /\ UNCHANGED <<docVars, envVars, storageVars, sessionVars, stdin>>

\* write_response, in either arm of the loop; ok: standard output takes it.
ReportReadFailure(ok) ==
    /\ pc = "report"
    /\ stdout' = IF ok THEN Append(stdout, Unwrap(pending)) ELSE stdout
    /\ pending' = None
    /\ pc' = IF ok THEN "stopped" ELSE "closed"
    /\ UNCHANGED <<docVars, envVars, storageVars, sessionVars, stdin>>

WriteResponse(ok) ==
    /\ pc = "write"
    /\ stdout' = IF ok THEN Append(stdout, Unwrap(pending)) ELSE stdout
    /\ pending' = None
    /\ pc' = IF ok THEN "read" ELSE "closed"
    /\ UNCHANGED <<docVars, envVars, storageVars, sessionVars, stdin>>

\* The frames of the loop specification: a request for every action of the
\* surface under the name the rename rule gives it, other spellings of the
\* encryption requests, requests with a field missing or wrong, and frames
\* that are cut short, too long or not JSON.
LoopPath == PathBuf(FALSE, <<"repo">>)
SurfaceRequests ==
    { Request([type |-> JStr("init")]),
      Request([type |-> JStr("init"), repo_path |-> JStr(LoopPath)]),
      Request([type |-> JStr("write"), data |-> Serialize(DocOne)]),
      Request([type |-> JStr("read")]),
      Request([type |-> JStr("sync")]),
      Request([type |-> JStr("status")]),
      Request([type |-> JStr("auth"), method |-> JStr("pat"), token |-> JStr("token")]),
      Request([type |-> JStr("auth"), method |-> JStr("oauth")]),
      Request([type |-> JStr("enableencryption")]),
      Request([type |-> JStr("disableencryption")]) }
OtherFrames ==
    { Request([type |-> JStr("enable_encryption")]),
      Request([type |-> JStr("EnableEncryption")]),
      Request([type |-> JStr("disable_encryption")]),
      Request([type |-> JStr("DisableEncryption")]),
      Request([type |-> JStr("encryptionstatus")]),
      Request([type |-> JStr("write")]),
      Request([type |-> JStr("auth"), method |-> JStr("basic")]),
      Request([data |-> Serialize(DocOne)]),
      Frame(2, None),
      Frame(MaxMessageLength, Some(JObj([type |-> JStr("read")]))),
      Frame(MaxMessageLength + 1, Some(JObj([type |-> JStr("read")]))),
      [Frame(2, Some(JObj([type |-> JStr("read")]))) EXCEPT !.whole = FALSE],
      [Frame(2, None) EXCEPT !.prefix = FALSE] }
Frames == SurfaceRequests \cup OtherFrames
Inputs(n) == UNION { [1..k -> Frames] : k \in 0..n }

InitLoop ==
    /\ DocIdle
    /\ StorageIdle
    /\ macos \in BOOLEAN
    /\ keychain = None
    /\ dirs = InitialDirs
    /\ wt = <<>>
    /\ remote = None
    /\ repo_path = None
    /\ encryption_enabled = FALSE
    /\ resp = [NoResponse EXCEPT !.op = "start"]
    /\ encSource = None
    /\ stdin \in Inputs(MaxFrames)
    /\ stdout = <<>>
    /\ pc = "read"
    /\ pending = None

NextLoop ==
    \/ ReadMessage
    \/ \E k \in Keys, n \in Nonces : HandleMessage("none", k, n)
    \/ \E ok \in BOOLEAN : WriteResponse(ok)
    \/ \E ok \in BOOLEAN : ReportReadFailure(ok)

SpecLoop == InitLoop /\ [][NextLoop]_vars

(***************************************************************************)
(* The configuration specification: every request of the session, on       *)
(* either platform, succeeding and failing.                                *)
(***************************************************************************)
HandleStatus(fault) ==
    /\ \E out \in {handle_status(fault)} : Handled(out)
    /\ UNCHANGED <<docVars, macos, storageVars, hostVars>>

ConfigWrites == { Serialize(DocOne), JObj([jsonapi |-> JObj([version |-> JStr("1.1")])]) }

NextConfig ==
    \/ \E p \in SessionPaths, url \in SessionUrls, f \in InitFaults :
          HandleInit(p, url, <<>>, f)
    \/ \E data \in ConfigWrites, f \in {"none", "push"}, n \in Nonces : HandleWrite(data, f, n)
    \/ \E f \in ReadFaults : HandleRead(f)
    \/ \E f \in SyncFaults : HandleSync(f)
    \/ \E f \in {"none", "open"} : HandleStatus(f)
    \/ \E k \in Keys, n \in Nonces, f \in EnableFaults : HandleEnableEncryption(k, n, f)
    \/ \E f \in DisableFaults : HandleDisableEncryption(f)
    \/ Restart

SpecConfig == InitSession /\ [][NextConfig]_vars


(***************************************************************************)
(* Claims about the document model, checked under SpecDoc.                 *)
(***************************************************************************)
\* The per-field invariants of a resource as the specification states them.
FieldInvariant(r) ==
    IF IsBookmark(r)
    THEN /\ IsSome(r.attributes.url.parse)
         /\ Unwrap(r.attributes.url.parse) \in {"http", "https"}
         /\ r.attributes.url.chars <= MaxUrlLen
         /\ r.attributes.title.chars <= MaxTitleLen
    ELSE /\ r.attributes.name.chars >= 1
         /\ r.attributes.name.chars <= MaxTagNameLen
         /\ ~r.attributes.name.lt
         /\ ~r.attributes.name.gt

Validated == IsSome(verdict)
ValidatedOk == IsSome(verdict) /\ Unwrap(verdict).ok

\* C5: validate() succeeds only if every resource of the document, in the
\* primary list and in the included list alike, satisfies the per-field
\* invariants (URL scheme and length, title length, tag name length and no
\* '<' or '>').
C5_ValidateChecksEveryResource ==
    ValidatedOk =>
        \A i \in 1..Len(AllResources(doc)) : FieldInvariant(AllResources(doc)[i])

\* Two resources of the document share an identifier.
SharesAnId(d) ==
    \E i, j \in 1..Len(AllResources(d)) :
        i # j /\ AllResources(d)[i].id = AllResources(d)[j].id

\* C6: validate() fails whenever two resources of the document share an
\* identifier: both in the primary list, both in the included list, or one
\* in each, whatever their kinds.
C6_DuplicateIdsRejected ==
    (Validated /\ SharesAnId(doc)) => ~Unwrap(verdict).ok

\* C6 witness: a bookmark in the primary list and a tag in the included list
\* share an identifier, every field is valid, and validate() returned the
\* duplicate-identifier error.
C6_Witness ==
    /\ Validated
    /\ Unwrap(verdict) = Err("Duplicate resource ID")
    /\ Len(doc.data) = 1 /\ Len(IncludedList(doc)) = 1
    /\ IsBookmark(doc.data[1]) /\ IsTag(IncludedList(doc)[1])
    /\ doc.data[1].id = IncludedList(doc)[1].id
    /\ \A i \in 1..Len(AllResources(doc)) : FieldInvariant(AllResources(doc)[i])

(***************************************************************************)
(* Claims about the storage layer, checked under SpecStorage.              *)
(***************************************************************************)
ReadReturned == IsSome(slast) /\ Unwrap(slast).op = "read"
WriteReturnedOk == IsSome(slast) /\ Unwrap(slast).op = "write" /\ Unwrap(slast).res.ok
\* The last write that reached the file system returned Ok.
WriteDone == IsSome(sjob) /\ Unwrap(sjob).done

\* C4: writeDocument(path, d, e) followed by readDocument(path, e) returns a
\* document equal to d, for e = false and for e = true with the key
\* available to the read.
C4_WriteThenReadReturnsDocument ==
    ( /\ WriteDone
      /\ ReadReturned
      /\ Unwrap(slast).e = Unwrap(sjob).e
      /\ (Unwrap(slast).e => Unwrap(slast).granted) )
    => ( /\ Unwrap(slast).res.ok
         /\ Unwrap(slast).res.val = Unwrap(sjob).doc )

\* C4 witness: a document with every shape of Option field was written
\* encrypted and read back.
C4_Witness ==
    /\ WriteDone
    /\ ReadReturned
    /\ Unwrap(sjob).doc = DocTagForms
    /\ Unwrap(sjob).e /\ Unwrap(slast).e
    /\ Unwrap(slast).res.ok

IsPartial(f) == IsSome(f) /\ IsSome(Unwrap(f).partial)

\* C7: in every state of writeDocument, also after a failed step or a kill
\* between the temp-file write and the rename, the target path holds the
\* complete previous content or the complete new content, never a partial
\* file; after a write that returned Ok the temp path does not exist.
C7_TargetWholeOldOrNew ==
    /\ ~IsPartial(sfs[BookmarksFile])
    /\ IsSome(sjob) =>
          sfs[BookmarksFile] \in {Unwrap(sjob).prev, Some(Unwrap(sjob).content)}
    /\ WriteReturnedOk =>
          /\ sfs[TempPathOf(BookmarksFile)] = None
          /\ sfs[BookmarksFile] = Some(Unwrap(sjob).content)

\* C7 witness: the process was killed after the temp file was written in
\* full and before the rename; the target still holds the previous file.
C7_Witness ==
    /\ IsSome(slast) /\ Unwrap(slast).op = "killed"
    /\ IsSome(sjob)
    /\ sfs[TempFile] = Some(Unwrap(sjob).content)
    /\ IsSome(Unwrap(sjob).prev)
    /\ sfs[BookmarksFile] = Unwrap(sjob).prev
    /\ sfs[BookmarksFile] # Some(Unwrap(sjob).content)

(***************************************************************************)
(* Claims about Init, checked under SpecInit.                              *)
(***************************************************************************)
\* The absolute path a requested path stands for.
RequestedPath(p) ==
    IF ~IsSome(p) THEN AllowedBase \o DefaultRepo.comps
    ELSE IF Unwrap(p).absolute THEN Unwrap(p).comps
    ELSE AllowedBase \o Unwrap(p).comps

\* The canonical path of the nearest ancestor of p that exists, p included.
RECURSIVE NearestExisting(_, _)
NearestExisting(p, ds) ==
    IF exists(p, ds) THEN canonicalize(p, ds).val
    ELSE NearestExisting(SubSeq(p, 1, Len(p) - 1), ds)

\* The requested path resolves outside the allowed base, judged with the
\* base directory in place.
ResolvesOutside(p, ds) ==
    ~starts_with(NearestExisting(RequestedPath(p), ds \cup {AllowedBase}), AllowedBase)

\* C1: an Init whose path (absolute, relative with "..", or not yet
\* existing and then judged by its nearest existing ancestor) resolves
\* outside the allowed base returns Error ERR_INVALID_PATH, creates or
\* clones no repository and leaves the session's repo_path unchanged.
C1_InitOutsideBaseRejected ==
    [][ (resp'.op = "Init" /\ ResolvesOutside(resp'.req.repo_path, dirs))
        => ( /\ resp'.code = Some("ERR_INVALID_PATH")
             /\ wt' = wt
             /\ repo_path' = repo_path ) ]_vars

(***************************************************************************)
(* Claims about the session, checked under Spec.                           *)
(***************************************************************************)
Initialized == IsSome(repo_path)
FileIsEncrypted == is_encrypted(BookmarksOnDisk) = Ok(TRUE)
FileIsPlain == IsSome(BookmarksOnDisk) /\ is_encrypted(BookmarksOnDisk) = Ok(FALSE)

\* C2: on macOS, with a key held and nothing failing, EnableEncryption on a
\* file that is already an encrypted envelope returns Success and leaves
\* the files and the Keychain key unchanged; DisableEncryption on a file
\* that is already plain text returns Success and leaves the files
\* unchanged.
C2_TransitionToCurrentStateIsNoOp ==
    [][ /\ ( /\ resp'.op = "EnableEncryption" /\ resp'.fault = "none"
             /\ macos /\ Initialized /\ IsSome(keychain) /\ FileIsEncrypted )
           => (resp'.type = "success" /\ wt' = wt /\ keychain' = keychain)
        /\ ( /\ resp'.op = "DisableEncryption" /\ resp'.fault = "none"
             /\ macos /\ Initialized /\ FileIsPlain )
           => (resp'.type = "success" /\ wt' = wt) ]_vars

\* The file was encrypted in place from a plaintext document and has not
\* been written by anything but DisableEncryption since.
EncryptedInPlace == Initialized /\ IsSome(encSource) /\ Unwrap(encSource).at = RepoDir

\* C3: a successful EnableEncryption leaves the file an envelope with
\* encrypted = true, and a successful DisableEncryption after it leaves a
\* plaintext file that decodes to the document that was encrypted.
C3_EnableThenDisableRestores ==
    /\ (resp.op = "EnableEncryption" /\ resp.type = "success" /\ IsSome(BookmarksOnDisk))
       => FileIsEncrypted
    /\ (resp.op = "DisableEncryption" /\ resp.type = "success" /\ EncryptedInPlace)
       => ( /\ FileIsPlain
            /\ ParseBookmarks(Unwrap(BookmarksOnDisk)) = Ok(Unwrap(encSource).doc) )

\* C3 witness: DisableEncryption decrypted, with the key from the Keychain,
\* the file EnableEncryption had encrypted in place, and plain text is back.
C3_Witness ==
    /\ resp.op = "DisableEncryption" /\ resp.type = "success" /\ resp.asked
    /\ EncryptedInPlace
    /\ Unwrap(encSource).doc = DocOne
    /\ BookmarksOnDisk = Some(to_string_pretty(Serialize(DocOne)))

\* The document a Write request carries, when it decodes to one.
WrittenDoc(r) == Deserialize(Unwrap(r.req))

\* C8: write_to_file_with_encryption of a document that fails validate()
\* returns an error, creates no temp file and leaves the target as it was;
\* a Write request carrying such a document is answered ERR_VALIDATE and
\* changes no file and makes no commit, locally or on the remote.
C8_InvalidDocumentNeverWritten ==
    /\ [](Initialized =>
            \A d \in StorageDocs, e \in BOOLEAN, n \in Nonces, ft \in ReplaceFaults :
                ~Validate(d).ok =>
                    /\ ~write_to_file_with_encryption(RepoTree.fs, BookmarksFile, d, e,
                            macos, keychain, TRUE, n, ft).res.ok
                    /\ write_to_file_with_encryption(RepoTree.fs, BookmarksFile, d, e,
                            macos, keychain, TRUE, n, ft).fs = RepoTree.fs)
    /\ [][ ( /\ resp'.op = "Write" /\ Initialized
             /\ WrittenDoc(resp').ok /\ ~Validate(WrittenDoc(resp').val).ok )
           => ( /\ resp'.code = Some("ERR_VALIDATE")
                /\ wt' = wt
                /\ remote' = remote ) ]_vars

\* C8 witness: a Write of a document with an ftp URL was answered
\* ERR_VALIDATE in a working tree that holds a committed bookmarks file.
C8_Witness ==
    /\ resp.op = "Write" /\ resp.code = Some("ERR_VALIDATE")
    /\ WrittenDoc(resp) = Ok(DocFtp)
    /\ Initialized
    /\ IsSome(BookmarksOnDisk)
    /\ Len(RepoTree.commits) = 1

\* The text a file stores: inside the envelope when it is one.
StoredText(f) ==
    IF is_encrypted(f) = Ok(TRUE)
    THEN ParseEnvelope(Unwrap(f)).val.ciphertext.pt
    ELSE Unwrap(f)

\* The file's bytes, plain or decrypted, decode to a document that fails
\* validate().
StoredInvalid(f) ==
    /\ IsSome(f) /\ Unwrap(f).utf8
    /\ ParseBookmarks(StoredText(f)).ok
    /\ ~Validate(ParseBookmarks(StoredText(f)).val).ok

\* C9: read_from_file_with_encryption never returns a document that fails
\* validate(): the data of a successful Read validates, and a Read of a
\* file whose bytes, plain or decrypted, decode to an invalid document is
\* answered ERR_READ_FILE.
C9_ReadNeverReturnsInvalid ==
    /\ Initialized =>
          \A e \in BOOLEAN, granted \in BOOLEAN :
              read_from_file_with_encryption(BookmarksOnDisk, e, macos, keychain, granted).ok
              => Validate(read_from_file_with_encryption(BookmarksOnDisk, e, macos,
                              keychain, granted).val).ok
    /\ resp.op = "Read" =>
          /\ resp.type = "success" =>
                /\ Deserialize(Unwrap(resp.data)).ok
                /\ Validate(Deserialize(Unwrap(resp.data)).val).ok
          /\ (Initialized /\ StoredInvalid(BookmarksOnDisk)) =>
                (resp.type = "error" /\ resp.code = Some("ERR_READ_FILE"))

\* C9 witness: with encryption enabled and the right key in the Keychain,
\* Read decrypted an envelope holding a document with an ftp URL and
\* answered ERR_READ_FILE.
C9_Witness ==
    /\ resp.op = "Read" /\ resp.code = Some("ERR_READ_FILE")
    /\ resp.fault = "none" /\ resp.asked
    /\ Initialized /\ encryption_enabled
    /\ BookmarksOnDisk = Some(EnvelopeOf(DocFtp, Key(1), Nonce(1)))
    /\ keychain = Some(B64Encode(Key(1)))

\* C10: read_from_file_with_encryption with the flag off, on an envelope
\* with encrypted = true, returns the "encrypted but not enabled" error
\* without asking the Keychain; a Read in a session whose flag is off is
\* answered with Error ERR_READ_FILE and no data.
C10_EncryptedFileNeedsFlag ==
    (Initialized /\ FileIsEncrypted) =>
        /\ \A granted \in BOOLEAN :
              read_from_file_with_encryption(BookmarksOnDisk, FALSE, macos, keychain,
                                             granted)
              = Asked(EncryptedButDisabled, FALSE)
        /\ (resp.op = "Read" /\ ~encryption_enabled) =>
              /\ resp.type = "error"
              /\ resp.code = Some("ERR_READ_FILE")
              /\ resp.data = None
              /\ ~resp.asked

\* C10 witness: after a restart the flag is off, the file this host
\* encrypted is still there with its key in the Keychain, and Read was
\* answered with an error.
C10_Witness ==
    /\ resp.op = "Read" /\ resp.type = "error" /\ resp.fault = "none"
    /\ Initialized /\ ~encryption_enabled /\ macos
    /\ BookmarksOnDisk = Some(EnvelopeOf(DocOne, Key(2), Nonce(1)))
    /\ keychain = Some(B64Encode(Key(2)))

(***************************************************************************)
(* Claims C11 - C13: is_encrypted, encrypt and decrypt (SpecCrypto).       *)
(***************************************************************************)
Called(op) == IsSome(ret) /\ Unwrap(ret).op = op

\* The file parses as the envelope shape and its encrypted field is true.
IsEnvelopeFile(f) ==
    /\ IsSome(f)
    /\ Unwrap(f).utf8
    /\ IsSome(Unwrap(f).parse)
    /\ DeEnvelope(Unwrap(Unwrap(f).parse)).ok
    /\ DeEnvelope(Unwrap(Unwrap(f).parse)).val.encrypted

\* C11: is_encrypted never returns an error for a missing or malformed
\* file: it returns false for a missing path, for a plaintext document and
\* for any file that does not parse as the envelope, and true only for a
\* file that parses as the envelope shape with encrypted = true.
C11_IsEncryptedNeverFails ==
    Called("is_encrypted") =>
        /\ Unwrap(ret).res.ok
        /\ Unwrap(ret).res.val = IsEnvelopeFile(Unwrap(ret).arg)

\* C12: encrypt and decrypt both fail, without asking the Keychain for the
\* key, when the manager's enabled flag is false.
C12_DisabledManagerRefuses ==
    ((Called("encrypt") \/ Called("decrypt")) /\ ~Unwrap(ret).arg.enabled) =>
        /\ ~Unwrap(ret).res.ok
        /\ ~Unwrap(ret).res.asked

KeyAvailable(granted) == get_key_from_keychain(macos, keychain, granted).ok

\* C13: decrypt checks the encrypted flag, then the algorithm, then
\* retrieves the key, then checks the nonce length.  An envelope whose flag
\* is false or whose algorithm is not AES-256-GCM is rejected with that
\* error and without asking for the key, whether or not a key is
\* available; with flag and algorithm right the key is asked for, and a
\* wrong nonce length is reported only once the key was retrieved.
C13_DecryptCheckOrder ==
    Called("decrypt") =>
        LET e == Unwrap(ret).arg.encrypted
            r == Unwrap(ret).res
        IN  IF ~e.encrypted
            THEN ~r.ok /\ r.err = "Data is not encrypted" /\ ~r.asked
            ELSE IF e.algorithm # Algorithm
            THEN ~r.ok /\ r.err = "Unsupported encryption algorithm" /\ ~r.asked
            ELSE /\ r.asked
                 /\ ~KeyAvailable(Unwrap(ret).arg.granted) =>
                        (~r.ok /\ r.err = get_key_from_keychain(macos, keychain,
                                              Unwrap(ret).arg.granted).err)
                 /\ (KeyAvailable(Unwrap(ret).arg.granted) /\ e.nonce.len # NONCE_SIZE) =>
                        (~r.ok /\ r.err = "Invalid nonce size")

\* C13 witness: with a key in the Keychain and access granted, decrypt was
\* given an envelope of another algorithm (and a short nonce) and answered
\* with the unsupported-algorithm error without asking for the key.
C13_Witness ==
    /\ Called("decrypt")
    /\ KeyAvailable(TRUE) /\ Unwrap(ret).arg.granted
    /\ Unwrap(ret).arg.encrypted.encrypted
    /\ Unwrap(ret).arg.encrypted.algorithm = "ROT13"
    /\ Unwrap(ret).arg.encrypted.nonce.len # NONCE_SIZE
    /\ Unwrap(ret).res.err = "Unsupported encryption algorithm"
    /\ ~Unwrap(ret).res.asked

(***************************************************************************)
(* Claim C14: nonces of successive encrypt calls (SpecCrypto; the Keychain *)
(* item does not change there, so successive calls use the same key).      *)
(***************************************************************************)
EncryptOk == Called("encrypt") /\ Unwrap(ret).res.ok

TagsOf(d) == { AllResources(d)[i] : i \in { j \in DOMAIN AllResources(d) : IsTag(AllResources(d)[j]) } }
TagIdsOf(d) == { t.id : t \in TagsOf(d) }
ParentEdges(d) == { <<t.id, Unwrap(ParentOf(t))>> : t \in { u \in TagsOf(d) : IsSome(ParentOf(u)) } }
NamesOfId(d, id) == { t.attributes.name : t \in { u \in TagsOf(d) : u.id = id } }

\* Sequences of distinct tag ids of the document.
DistinctIdSeqs(d) ==
    UNION { { s \in [1..n -> TagIdsOf(d)] : \A i, j \in 1..n : i # j => s[i] # s[j] } :
            n \in 1..Cardinality(TagIdsOf(d)) }

\* path walks parent references upward: each id names the next as parent.
IsWalk(d, path) == \A k \in 1..(Len(path) - 1) : <<path[k], path[k + 1]>> \in ParentEdges(d)

\* names is the walk's names, the last id of the walk first.
NamesRootFirst(d, path, names) ==
    /\ Len(names) = Len(path)
    /\ \A k \in 1..Len(path) : names[k] \in NamesOfId(d, path[Len(path) + 1 - k])

\* The walk cannot go on from its last id: a tag of that id has no parent,
\* or names a parent that is no tag, or names an id already on the walk.
StopsAt(d, path) ==
    \E t \in TagsOf(d) :
        /\ t.id = path[Len(path)]
        /\ \/ ~IsSome(ParentOf(t))
           \/ Unwrap(ParentOf(t)) \notin TagIdsOf(d)
           \/ \E k \in 1..Len(path) : path[k] = Unwrap(ParentOf(t))

\* The last id of the walk names an id already on the walk as its parent.
ClosesCycle(d, path) ==
    \E k \in 1..Len(path) : <<path[Len(path)], path[k]>> \in ParentEdges(d)

OnCycle(d, id) ==
    \E path \in DistinctIdSeqs(d) :
        path[1] = id /\ IsWalk(d, path) /\ <<path[Len(path)], id>> \in ParentEdges(d)

\* C15: get_tag_breadcrumb returns for every document, parent cycles of
\* any length included.  For an id that is no tag the path is empty;
\* otherwise it is non-empty and holds one name for each id of a walk of
\* distinct ids from tag_id upward, which ends where the walk cannot go on:
\* at a tag without a parent or at a parent already visited.
C15_BreadcrumbTerminatesOnCycles ==
    Called("get_tag_breadcrumb") =>
        LET id == Unwrap(ret).arg
            names == Unwrap(ret).res
        IN  IF id \notin TagIdsOf(doc) THEN names = <<>>
            ELSE /\ Len(names) >= 1
                 /\ Len(names) <= Cardinality(TagIdsOf(doc))
                 /\ \E path \in DistinctIdSeqs(doc) :
                       /\ path[1] = id
                       /\ IsWalk(doc, path)
                       /\ StopsAt(doc, path)
                       /\ NamesRootFirst(doc, path, names)

\* C15 witness: the three tags form one cycle t1 -> t2 -> t3 -> t1 and the
\* breadcrumb of t1 returned the three names, t1's last.
C15_Witness ==
    /\ Called("get_tag_breadcrumb")
    /\ Unwrap(ret).arg = "t1"
    /\ Len(AllResources(doc)) = 3
    /\ ParentEdges(doc) = { <<"t1", "t2">>, <<"t2", "t3">>, <<"t3", "t1">> }
    /\ Unwrap(ret).res = << TagNameOf("t3"), TagNameOf("t2"), TagNameOf("t1") >>

Acyclic(d) == \A id \in TagIdsOf(d) : ~OnCycle(d, id)
AllParentsResolve(d) == \A e \in ParentEdges(d) : e[2] \in TagIdsOf(d)

\* The document after to_string_pretty and from_str.
Reloaded(d) == Let(from_str(to_string_pretty(Serialize(d))), LAMBDA j : Deserialize(j.val))

\* C16: in a document whose parent references are acyclic and all name
\* existing tags, the breadcrumb of an existing tag is the names on its
\* parent chain, the root (a tag without parent) first and the tag's own
\* name last; the document serialized and decoded again gives the same.
C16_BreadcrumbIsParentChain ==
    (Called("get_tag_breadcrumb") /\ Acyclic(doc) /\ AllParentsResolve(doc)
       /\ Unwrap(ret).arg \in TagIdsOf(doc)) =>
        /\ \E path \in DistinctIdSeqs(doc) :
              /\ path[1] = Unwrap(ret).arg
              /\ IsWalk(doc, path)
              /\ \E t \in TagsOf(doc) : t.id = path[Len(path)] /\ ~IsSome(ParentOf(t))
              /\ NamesRootFirst(doc, path, Unwrap(ret).res)
        /\ Reloaded(doc).ok
        /\ get_tag_breadcrumb(Reloaded(doc).val, Unwrap(ret).arg) = Unwrap(ret).res

\* C16 witness: the chain t3 -> t2 -> t1 with t1 the root, spread over both
\* lists, and the breadcrumb of t3 returned tech, programming, rust.
C16_Witness ==
    /\ Called("get_tag_breadcrumb")
    /\ Unwrap(ret).arg = "t3"
    /\ Len(doc.data) = 1 /\ Len(IncludedList(doc)) = 2
    /\ ParentEdges(doc) = { <<"t3", "t2">>, <<"t2", "t1">> }
    /\ TagIdsOf(doc) = TagIds
    /\ Unwrap(ret).res = << TagNameOf("t1"), TagNameOf("t2"), TagNameOf("t3") >>

\* The ids of the tags naming p as parent, in the order the document holds
\* them: primary list first, then the included list.
HasParent(r, p) == IsTag(r) /\ ParentOf(r) = Some(p)
ChildrenInOrder(d, p) ==
    Let(SelectSeq(AllResources(d), LAMBDA r : HasParent(r, p)),
        LAMBDA children : [i \in 1..Len(children) |-> children[i].id])

\* C17: get_tag_hierarchy maps exactly the ids named as parent, each to the
\* ids of the tags naming it, one entry for each such tag, in document
\* order (primary list, then included list), unsorted; the id of a tag
\* without a parent reference is in no child list.
C17_HierarchyListsChildrenInOrder ==
    Called("get_tag_hierarchy") =>
        /\ DOMAIN Unwrap(ret).res = { e[2] : e \in ParentEdges(doc) }
        /\ \A p \in DOMAIN Unwrap(ret).res :
              Unwrap(ret).res[p] = ChildrenInOrder(doc, p)
        /\ \A t \in TagsOf(doc) :
              (\A u \in TagsOf(doc) : u.id = t.id => ~IsSome(ParentOf(u))) =>
                  \A p \in DOMAIN Unwrap(ret).res :
                      \A i \in 1..Len(Unwrap(ret).res[p]) : Unwrap(ret).res[p][i] # t.id

\* C17 witness: t3 in the primary list and t2 in the included list both
\* name t1 as parent, t1 has none, and the hierarchy lists t3 before t2.
C17_Witness ==
    /\ Called("get_tag_hierarchy")
    /\ Len(doc.data) = 2 /\ Len(IncludedList(doc)) = 1
    /\ doc.data[2].id = "t3" /\ IncludedList(doc)[1].id = "t2"
    /\ ParentEdges(doc) = { <<"t3", "t1">>, <<"t2", "t1">> }
    /\ DOMAIN Unwrap(ret).res = {"t1"}
    /\ Unwrap(ret).res["t1"] = <<"t3", "t2">>

\* C18: add_bookmark given a tag and add_tag given a bookmark fail and
\* leave the document as it was; add_bookmark given a bookmark appends it
\* to the primary list and add_tag given a tag appends it to the included
\* list, created when absent, nothing else of the document changing.
C18_AddRejectsWrongKind ==
    [][/\ Called("add_bookmark")' =>
            IF IsTag(Unwrap(ret').arg)
            THEN ~Unwrap(ret').res.ok /\ doc' = doc
            ELSE /\ Unwrap(ret').res.ok
                 /\ doc'.data = Append(doc.data, Unwrap(ret').arg)
                 /\ doc'.included = doc.included
                 /\ doc'.jsonapi = doc.jsonapi
       /\ Called("add_tag")' =>
            IF IsBookmark(Unwrap(ret').arg)
            THEN ~Unwrap(ret').res.ok /\ doc' = doc
            ELSE /\ Unwrap(ret').res.ok
                 /\ doc'.included = Some(Append(IncludedList(doc), Unwrap(ret').arg))
                 /\ doc'.data = doc.data
                 /\ doc'.jsonapi = doc.jsonapi]_vars

\* C18 witness: add_tag succeeded and the included list holds just that
\* tag, next to a primary list of two resources.
C18_Witness ==
    /\ Called("add_tag")
    /\ Unwrap(ret).res.ok
    /\ Len(doc.data) = 2
    /\ doc.included = Some(<<Unwrap(ret).arg>>)

\* C19: get_bookmarks returns every bookmark of the document and get_tags
\* every tag, from the primary and the included list alike, so that each
\* resource of the document is in exactly one of the two views.
C19_ViewsPartitionResources ==
    /\ Called("get_bookmarks") =>
          /\ Unwrap(ret).res = SelectSeq(AllResources(doc), IsBookmark)
          /\ Len(Unwrap(ret).res) + Len(get_tags(doc)) = Len(AllResources(doc))
    /\ Called("get_tags") =>
          /\ Unwrap(ret).res = SelectSeq(AllResources(doc), IsTag)
          /\ Len(get_bookmarks(doc)) + Len(Unwrap(ret).res) = Len(AllResources(doc))

(***************************************************************************)
(* Claim C20: requests before Init (SpecSync).                             *)
(***************************************************************************)
\* C20: a Write, Read or Sync request received while the session has no
\* repository path is answered with Error ERR_NOT_INITIALIZED and changes
\* neither the session, nor a file or directory, nor a repository, nor
\* the remote, nor the Keychain.
C20_NotInitializedRejected ==
    [][(resp'.op \in {"Write", "Read", "Sync"} /\ ~IsSome(repo_path)) =>
          /\ resp'.type = "error"
          /\ resp'.code = Some("ERR_NOT_INITIALIZED")
          /\ UNCHANGED <<dirs, wt, remote, repo_path, encryption_enabled, keychain>>]_vars

\* C20 witness: after a restart, with a repository on disk from the
\* session before, Sync was answered ERR_NOT_INITIALIZED.
C20_Witness ==
    /\ resp.op = "Sync"
    /\ resp.code = Some("ERR_NOT_INITIALIZED")
    /\ ~IsSome(repo_path)
    /\ DOMAIN wt # {}

(***************************************************************************)
(* Claims about the Write pipeline, checked under SpecWrite.               *)
(***************************************************************************)
\* What a Write step did to the repository of the session, read off the
\* states before and after it.
WriteTree == wt'[RepoDir]
WrittenText == to_string_pretty(Serialize(Deserialize(Unwrap(resp'.req)).val))
WroteFile == WriteTree.fs[BookmarksFile] = Some(WrittenText)
StagedFile == WriteTree.index = Some(WrittenText)
CommittedFile ==
    /\ Len(WriteTree.commits) = Len(RepoTree.commits) + 1
    /\ IsPrefix(RepoTree.commits, WriteTree.commits)
    /\ TipBlob(WriteTree.commits) = Some(WrittenText)
PushedBranch == remote' = Some(WriteTree.commits)
NoFile == WriteTree.fs[BookmarksFile] = RepoTree.fs[BookmarksFile]
NoStage == WriteTree.index = RepoTree.index
NoCommit == WriteTree.commits = RepoTree.commits
NoPush == remote' = remote

\* The steps a Write with this response has run, and those it has not.
StepsRun(code) ==
    CASE code \in {Some("ERR_PARSE"), Some("ERR_VALIDATE")} ->
            wt' = wt /\ NoPush
      [] code = Some("ERR_WRITE_FILE") -> NoFile /\ NoStage /\ NoCommit /\ NoPush
      [] code \in {Some("ERR_OPEN_REPO"), Some("ERR_GIT_ADD")} ->
            WroteFile /\ NoStage /\ NoCommit /\ NoPush
      [] code = Some("ERR_GIT_COMMIT") -> WroteFile /\ StagedFile /\ NoCommit /\ NoPush
      [] code = Some("ERR_GIT_PUSH") ->
            WroteFile /\ StagedFile /\ CommittedFile /\ NoPush /\ RepoTree.origin
      [] code = None ->
            WroteFile /\ StagedFile /\ CommittedFile
            /\ IF RepoTree.origin THEN PushedBranch ELSE NoPush
      [] OTHER -> FALSE

\* The error code of the first step that fails, given the request and the
\* point of failure.
FirstFailure(data, fault) ==
    IF ~Deserialize(data).ok THEN Some("ERR_PARSE")
    ELSE IF ~Validate(Deserialize(data).val).ok THEN Some("ERR_VALIDATE")
    ELSE CASE fault \in {"create", "write", "rename"} -> Some("ERR_WRITE_FILE")
           [] fault = "open" -> Some("ERR_OPEN_REPO")
           [] fault = "add" -> Some("ERR_GIT_ADD")
           [] fault = "commit" -> Some("ERR_GIT_COMMIT")
           [] fault = "push" /\ RepoTree.origin -> Some("ERR_GIT_PUSH")
           [] OTHER -> None

\* C21: a Write on an initialized session runs parse, validate, write file,
\* open repository, stage, commit and push (push only with origin) in this
\* order: the response carries the code of the first step that fails, every
\* step before it has taken effect and no step after it has.
C21_WritePipelineOrder ==
    [][(resp'.op = "Write" /\ IsSome(repo_path)) =>
          /\ resp'.code = FirstFailure(Unwrap(resp'.req), resp'.fault)
          /\ (resp'.type = "error") = IsSome(resp'.code)
          /\ StepsRun(resp'.code)]_vars

\* C21 witness: a Write whose commit failed, in a clone: the file is
\* written and staged, the branch and the remote are as before.
C21_Witness ==
    /\ resp.op = "Write"
    /\ resp.code = Some("ERR_GIT_COMMIT")
    /\ IsSome(repo_path)
    /\ RepoTree.origin
    /\ RepoTree.index = RepoTree.fs[BookmarksFile]
    /\ RepoTree.index # TipBlob(RepoTree.commits)
    /\ remote = Some(RepoTree.commits)

\* C22: a successful Write leaves the storage file in place and the working
\* tree clean, and a Read that follows it immediately returns the document
\* written, whatever was written before.
C22_WriteThenReadRoundTrip ==
    [][/\ (resp'.op = "Write" /\ resp'.type = "success") =>
             /\ IsSome(WriteTree.fs[BookmarksFile])
             /\ is_clean(WriteTree)
       /\ (resp.op = "Write" /\ resp.type = "success" /\ resp'.op = "Read") =>
             /\ resp'.type = "success"
             /\ IsSome(resp'.data)
             /\ Deserialize(Unwrap(resp'.data)) = Deserialize(Unwrap(resp.req))]_vars

\* C22 witness: the second of two Writes of different documents was read
\* back.
C22_Witness ==
    /\ resp.op = "Read"
    /\ resp.type = "success"
    /\ IsSome(repo_path)
    /\ Len(RepoTree.commits) = 2
    /\ RepoTree.commits[1].blob # RepoTree.commits[2].blob
    /\ is_clean(RepoTree)
    /\ Some(to_string_pretty(Unwrap(resp.data))) = TipBlob(RepoTree.commits)

(***************************************************************************)
(* C23: the message of the commit a Write makes.                           *)
(***************************************************************************)
\* The bookmarks and the tags of a document, over both of its lists.
BookmarksOf(d) == SelectSeq(AllResources(d), IsBookmark)
CountsReported(message, n, m) ==
    \E i \in 1..(Len(message) - 3) :
        /\ message[i] = ToString(n)
        /\ message[i + 1] \in {" bookmark(s), ", " bookmarks, "}
        /\ message[i + 2] = ToString(m)
        /\ message[i + 3] \in {" tag(s)", " tags"}

\* C23: the commit a successful Write(d) makes carries a message that
\* reports "N bookmark(s), M tag(s)", N the number of bookmarks of d and M
\* the number of tags of d, each counted over the primary and the auxiliary
\* list.
C23_CommitMessageReportsCounts ==
    [][(resp'.op = "Write" /\ resp'.type = "success") =>
          CountsReported(WriteTree.commits[Len(WriteTree.commits)].message,
                         Len(BookmarksOf(Deserialize(Unwrap(resp'.req)).val)),
                         Len(SelectSeq(AllResources(Deserialize(Unwrap(resp'.req)).val), IsTag)))]_vars

(***************************************************************************)
(* Claims about pull, checked under SpecPull.                              *)
(***************************************************************************)
\* A Sync step that pulled: the tree, its tip and the fetched commit before
\* the step, the tree after it.
Fetchable == IsSome(repo_path) /\ RepoDir \in DOMAIN wt /\ RepoTree.origin
                /\ IsSome(remote) /\ Unwrap(remote) # <<>>
Pulled == resp'.op = "Sync" /\ resp'.type = "success" /\ Fetchable
HeadCommit == Unwrap(Tip(RepoTree.commits))
FetchCommit == Unwrap(Tip(Unwrap(remote)))
PulledTree == wt'[RepoDir]
UpToDate == RepoTree.commits # <<>> /\ FetchCommit \in Ancestors(HeadCommit)
FastForward ==
    RepoTree.commits # <<>> /\ ~UpToDate /\ HeadCommit \in Ancestors(FetchCommit)
Diverged == RepoTree.commits # <<>> /\ ~UpToDate /\ ~FastForward

\* Both sides changed bookmarks.json since the merge base, differently and
\* in the same place.
Conflicting ==
    /\ HeadCommit.blob # FetchCommit.blob
    /\ HeadCommit.blob # MergeBaseBlob(HeadCommit, FetchCommit)
    /\ FetchCommit.blob # MergeBaseBlob(HeadCommit, FetchCommit)
    /\ ~(resp'.fault = "apart" /\ IsSome(MergeBaseBlob(HeadCommit, FetchCommit)))

\* C24: when the local and the remote branch have diverged and both changed
\* bookmarks.json, a pull that nothing from outside makes fail succeeds: the
\* working tree holds the remote's version of the file exactly, one merge
\* commit is made whose parents are the previous local tip and the fetched
\* remote tip, and no merge is left pending.
C24_DivergedPullTakesTheirs ==
    [][(resp'.op = "Sync" /\ Fetchable /\ Diverged /\ Conflicting
        /\ is_clean(RepoTree) /\ resp'.fault = "none") =>
          /\ resp'.type = "success"
          /\ PulledTree.fs[BookmarksFile] = FetchCommit.blob
          /\ Unwrap(Tip(PulledTree.commits)).parents = <<HeadCommit, FetchCommit>>
          /\ ~PulledTree.merging]_vars

\* The commits of a history, and those a pull made: in the tree afterwards,
\* neither in the tree before nor fetched.
CommitsOf(commits) == { commits[i] : i \in DOMAIN commits }
MadeByPull ==
    CommitsOf(PulledTree.commits) \ (CommitsOf(RepoTree.commits) \cup CommitsOf(Unwrap(remote)))

\* C25: a successful pull is exactly one of three outcomes and makes a commit
\* only when the branches diverged.  Up to date: the tree is unchanged.
\* Fast-forward: the branch is the remote's history, its tip the remote tip,
\* no commit is made and the working tree and index hold the tip's file.
\* After any successful pull the remote tip is reachable from the local tip.
C25_PullOutcomes ==
    [][Pulled =>
          /\ UpToDate \/ FastForward \/ Diverged
          /\ UpToDate => PulledTree = RepoTree
          /\ FastForward =>
                /\ PulledTree.commits = Unwrap(remote)
                /\ Tip(PulledTree.commits) = Some(FetchCommit)
                /\ MadeByPull = {}
                /\ PulledTree.fs[BookmarksFile] = FetchCommit.blob
                /\ PulledTree.index = FetchCommit.blob
          /\ MadeByPull # {} => Diverged /\ Cardinality(MadeByPull) = 1
          /\ FetchCommit \in Ancestors(Unwrap(Tip(PulledTree.commits)))]_vars

\* A pull has just merged: the tip is a merge commit of the previous tip and
\* the remote tip, which the remote does not have.
C25_Witness ==
    /\ resp.op = "Sync"
    /\ resp.type = "success"
    /\ IsSome(repo_path)
    /\ IsSome(remote)
    /\ Len(RepoTree.commits) > Len(Unwrap(remote))
    /\ Unwrap(Tip(RepoTree.commits)).message = MergeMessage
    /\ Unwrap(Tip(RepoTree.commits)).parents[2] = Unwrap(Tip(Unwrap(remote)))
    /\ ~RepoTree.merging

(***************************************************************************)
(* C26: the push of a Write, checked under SpecPull.                       *)
(***************************************************************************)
\* A Write step that came to its push: origin is configured and the commit
\* was made.  The two causes of a failing push: the remote rejects the
\* credentials, or its branch holds a commit the local branch does not
\* descend from.
ReachedPush == resp'.op = "Write" /\ IsSome(repo_path) /\ RepoTree.origin /\ CommittedFile
AuthRejected == resp'.fault = "push"
NonFastForward ==
    /\ IsSome(remote)
    /\ Unwrap(remote) # <<>>
    /\ FetchCommit \notin Ancestors(Unwrap(Tip(WriteTree.commits)))

\* C26: the push of a Write fails exactly when the remote rejects the
\* credentials or the remote history has diverged from the local one; the
\* response is then Error ERR_GIT_PUSH, the remote is as before, and the
\* working tree holds the one commit of this Write and nothing pulled or
\* merged: the push was tried once and nothing was done about its failure.
C26_PushFailsOnce ==
    [][/\ ReachedPush =>
            (resp'.code = Some("ERR_GIT_PUSH")) = (AuthRejected \/ NonFastForward)
       /\ (resp'.op = "Write" /\ resp'.code = Some("ERR_GIT_PUSH")) =>
            /\ ReachedPush
            /\ resp'.type = "error"
            /\ remote' = remote
            /\ WriteTree.commits = Append(RepoTree.commits, Unwrap(Tip(WriteTree.commits)))
            /\ Unwrap(Tip(WriteTree.commits)).parents = Tip(RepoTree.commits)
            /\ WriteTree.merging = RepoTree.merging
            /\ WroteFile /\ StagedFile
            /\ \A at \in DOMAIN wt \ {RepoDir} : wt'[at] = wt[at]]_vars

\* C26 witness: a push was refused although the remote took the credentials:
\* the remote holds a commit that the local branch, one commit ahead of
\* what it shares with the remote, does not have.
C26_Witness ==
    /\ resp.op = "Write"
    /\ resp.code = Some("ERR_GIT_PUSH")
    /\ resp.fault = "none"
    /\ IsSome(repo_path)
    /\ IsSome(remote)
    /\ Unwrap(Tip(Unwrap(remote))) \notin Ancestors(Unwrap(Tip(RepoTree.commits)))
    /\ ~RepoTree.merging

(***************************************************************************)
(* Claims about the transport and the main loop, checked under SpecLoop.   *)
(***************************************************************************)
\* The actions of the orchestrator, and the tag of the request for each:
\* the name of the action in lower case.
Surface ==
    {"Init", "Write", "Read", "Sync", "Status", "EnableEncryption", "DisableEncryption",
     "Auth"}
WireName(a) ==
    CASE a = "Init" -> "init" [] a = "Write" -> "write" [] a = "Read" -> "read"
      [] a = "Sync" -> "sync" [] a = "Status" -> "status" [] a = "Auth" -> "auth"
      [] a = "EnableEncryption" -> "enableencryption"
      [] a = "DisableEncryption" -> "disableencryption"
RequestsFor(a) == { f \in SurfaceRequests : Unwrap(f.body).v.type.v = WireName(a) }

\* C27: for every action of the surface, a well-formed request for it is
\* decoded by the transport into the message variant of that action, and
\* the dispatcher runs the handler of that action for it; it is never
\* answered as an undecodable message.
C27_SurfaceDecodedAndRouted ==
    [][\A a \in Surface :
          /\ (pc = "read" /\ stdin # <<>> /\ Head(stdin) \in RequestsFor(a)) =>
                /\ pc' = "handle"
                /\ Unwrap(pending').variant = a
          /\ (pc = "handle" /\ Unwrap(pending).variant = a) => resp'.op = a]_vars

\* A request that is read and not yet answered, and the response as it goes
\* to standard output.
InFlight == IF pc \in {"handle", "write"} THEN 1 ELSE 0
Sent(r) == [type |-> r.type, code |-> r.code, data |-> r.data]

\* C28: requests are processed one at a time and in order.  A frame is
\* taken from standard input only when no request is in flight; the session
\* and the disk change only while the handler of the request read last runs;
\* that handler's response is the next and only thing written before the
\* next read, so every frame read so far is in flight or answered.  When
\* reading fails, the one response ERR_READ_MESSAGE is written (if standard
\* output takes it) and the loop is left: nothing is read, handled or
\* written after that.
C28_OneRequestAtATime ==
    [][/\ pc \notin {"stopped", "closed"}
       /\ pc = "read" => pending = None
       /\ stdin' # stdin => pc = "read"
       /\ <<sessionVars, keychain>>' # <<sessionVars, keychain>> =>
             pc = "handle" /\ stdout' = stdout
       /\ stdout' # stdout =>
             pc \in {"write", "report"} /\ stdout' = Append(stdout, Unwrap(pending))
       /\ pc = "read" =>
             IF read_message(stdin).res.ok
             THEN pc' = "handle" /\ stdin' = Tail(stdin)
             ELSE pc' = "report"
       /\ pc = "handle" => pc' = "write" /\ pending' = Some(Sent(resp'))
       /\ pc = "write" =>
             \/ pc' = "read" /\ stdout' = Append(stdout, Sent(resp))
             \/ pc' = "closed" /\ stdout' = stdout
       /\ pc = "report" =>
             \/ pc' = "stopped" /\ stdout' = Append(stdout, Error("ERR_READ_MESSAGE"))
             \/ pc' = "closed" /\ stdout' = stdout
       /\ pc' \in {"read", "handle", "write"} =>
             Len(stdin') + InFlight' + Len(stdout') = Len(stdin) + InFlight + Len(stdout)]_vars

\* C28 witness: an Init was read, handled and answered, then a read failed,
\* was answered with ERR_READ_MESSAGE, and the loop was left.
C28_Witness ==
    /\ pc = "stopped"
    /\ resp.op = "Init"
    /\ Len(stdout) = 2
    /\ stdout[1] = Sent(resp)
    /\ stdout[1].type = "success"
    /\ stdout[2] = Error("ERR_READ_MESSAGE")

(***************************************************************************)
(* Claims about DisableEncryption and the key, checked under SpecKey.      *)
(***************************************************************************)
\* A DisableEncryption step, and whether a storage file is in plain text:
\* absent, or there and not an envelope.
Disabled == resp'.op = "DisableEncryption"
Plain(file) == ~IsSome(file) \/ (is_encrypted(file).ok /\ ~is_encrypted(file).val)
FileAfter == wt'[RepoDir].fs[BookmarksFile]

\* C29: on macOS, a DisableEncryption whose file step succeeded (the file is
\* in plain text afterwards) returns Success and clears the flag, also when
\* the key could not be deleted and stays in the Keychain; when another step
\* fails (not initialized, the check or the decryption of the file, the
\* write of the plain text) it returns Error and leaves the flag and the
\* Keychain as they were.
C29_DisableToleratesKeyDeletionFailure ==
    [][(Disabled /\ macos) =>
          /\ (resp'.type = "success") = (IsSome(repo_path) /\ Plain(FileAfter))
          /\ resp'.type = "success" =>
                /\ ~encryption_enabled'
                /\ keychain' = IF resp'.fault = "delete" THEN keychain ELSE None
          /\ resp'.type # "success" =>
                /\ resp'.type = "error"
                /\ resp'.code \in {Some("ERR_NOT_INITIALIZED"), Some("ERR_CHECK_ENCRYPTION"),
                                  Some("ERR_DECRYPT"), Some("ERR_WRITE_DECRYPT")}
                /\ (resp'.code = Some("ERR_NOT_INITIALIZED")) = ~IsSome(repo_path)
                /\ encryption_enabled' = encryption_enabled
                /\ keychain' = keychain]_vars

\* C29 witness: an encrypted file was decrypted in place, the key could not
\* be deleted: the response is Success, the flag is cleared, the key is
\* still in the Keychain.
C29_Witness ==
    /\ macos
    /\ resp.op = "DisableEncryption"
    /\ resp.fault = "delete"
    /\ resp.type = "success"
    /\ resp.asked
    /\ ~encryption_enabled
    /\ IsSome(keychain)
    /\ IsSome(repo_path)
    /\ IsSome(BookmarksOnDisk)
    /\ Plain(BookmarksOnDisk)

\* C30: the Keychain holds a key only between an EnableEncryption and the
\* next successful DisableEncryption.  A key comes into the Keychain only
\* in an EnableEncryption step; after a successful DisableEncryption whose
\* deletion of the key did not fail, the Keychain holds no key, the storage
\* file of the working tree, if there is one, is in plain text, and the
\* flag is false.
C30_KeyLifecycle ==
    [][/\ (keychain = None /\ keychain' # None) => resp'.op = "EnableEncryption"
       /\ (Disabled /\ resp'.type = "success" /\ resp'.fault # "delete") =>
             /\ keychain' = None
             /\ ~encryption_enabled'
             /\ IsSome(repo_path) => Plain(FileAfter)]_vars

(***************************************************************************)
(* C31: the platform without a Keychain, checked under SpecPlatform.       *)
(***************************************************************************)
\* A step of handle_enable_encryption; the error of a storage call that
\* asked for the key where there is no Keychain.
EnableStep == resp'.op = "EnableEncryption" /\ storageVars' = storageVars
NoKeychain == Err("macOS Keychain not available on this platform")

\* C31: on a build that is not for macOS, EnableEncryption answers
\* ERR_PLATFORM_NOT_SUPPORTED and leaves the flag false and the working
\* trees, the storage file among them, as they were; and a write with
\* encryption on returns an error before it touches a file: no such write
\* gets as far as a temp file, so the document is never written in plain
\* text instead.
C31_UnsupportedPlatformFailsFast ==
    [][~macos =>
          /\ EnableStep =>
                /\ resp'.type = "error"
                /\ resp'.code = Some("ERR_PLATFORM_NOT_SUPPORTED")
                /\ ~encryption_enabled /\ ~encryption_enabled'
                /\ wt' = wt /\ dirs' = dirs /\ keychain' = keychain
                /\ repo_path' = repo_path
          /\ \A granted \in BOOLEAN, n \in Nonces :
                /\ ~WriteContent(DocOne, TRUE, macos, keychain, granted, n).ok
                /\ WriteContent(DocOne, TRUE, macos, keychain, granted, n).err = NoKeychain.err
          /\ (sjob' # sjob /\ spc = "idle") => ~Unwrap(sjob').e
          /\ (spc = "idle" /\ slast' # slast /\ IsSome(slast')) =>
                sfs' = sfs /\ spc' = "idle" /\ ~Unwrap(slast').res.ok
          /\ (resp'.op = "Write" /\ storageVars' = storageVars /\ encryption_enabled) =>
                resp'.type = "error"]_vars

\* C31 witness: in an initialized session with a storage file,
\* EnableEncryption was refused, and a write with encryption on returned the
\* error of the missing Keychain.
C31_Witness ==
    /\ ~macos
    /\ resp.op = "EnableEncryption"
    /\ resp.code = Some("ERR_PLATFORM_NOT_SUPPORTED")
    /\ ~encryption_enabled
    /\ IsSome(repo_path)
    /\ IsSome(BookmarksOnDisk)
    /\ IsSome(slast)
    /\ Unwrap(slast).op = "write"
    /\ ~Unwrap(slast).res.ok
    /\ Unwrap(slast).res.err = NoKeychain.err
    /\ sfs[TempFile] = None

(***************************************************************************)
(* Claims about EnableEncryption and the key, checked under SpecKey.       *)
(***************************************************************************)
\* The storage file of every working tree is as it was.
StorageFilesKept ==
    /\ DOMAIN wt' = DOMAIN wt
    /\ \A at \in DOMAIN wt : wt'[at].fs[BookmarksFile] = wt[at].fs[BookmarksFile]

\* C32: an EnableEncryption that fails because the session is not
\* initialized, or because the storage file cannot be checked, read or
\* encrypted, returns Error and leaves the flag, the storage file and the
\* Keychain as they were: no key is generated and a key stored before is
\* not replaced.
C32_EnableValidatedBeforeApplied ==
    [][(macos /\ resp'.op = "EnableEncryption"
        /\ resp'.code \in {Some("ERR_NOT_INITIALIZED"), Some("ERR_CHECK_ENCRYPTION"),
                          Some("ERR_READ_FOR_ENCRYPT"), Some("ERR_ENCRYPT")}) =>
          /\ resp'.type = "error"
          /\ encryption_enabled' = encryption_enabled
          /\ StorageFilesKept
          /\ keychain' = keychain]_vars

\* The storage file of the open working tree, when the session has one.
OpenTree == IsSome(repo_path) /\ RepoDir \in DOMAIN wt
Enveloped(file) == IsSome(file) /\ is_encrypted(file).ok /\ is_encrypted(file).val

\* C33: on macOS, whenever the storage file of the open working tree is an
\* encryption envelope, the Keychain holds the key the file was encrypted
\* with: reading the file with encryption on, and Touch ID granted,
\* succeeds.
C33_EncryptedFileHasItsKey ==
    (macos /\ OpenTree /\ Enveloped(BookmarksOnDisk)) =>
        read_from_file_with_encryption(BookmarksOnDisk, TRUE, macos, keychain, TRUE).ok

(***************************************************************************)
(* C34: HostConfig, checked under SpecConfig.                              *)
(***************************************************************************)
\* C34: a session starts with no path and the flag false.  The path is set
\* only by a successful Init; the flag becomes true only by a successful
\* EnableEncryption and false only by DisableEncryption; Write, Read, Sync,
\* Status and every request answered with Error leave both as they were,
\* and Init leaves the flag as it was.
C34_ConfigChanges ==
    [][/\ resp.op = "start" => repo_path = None /\ ~encryption_enabled
       /\ resp'.op # "start" =>
             /\ repo_path' # repo_path => resp'.op = "Init" /\ resp'.type = "success"
             /\ (~encryption_enabled /\ encryption_enabled') =>
                   resp'.op = "EnableEncryption" /\ resp'.type = "success"
             /\ (encryption_enabled /\ ~encryption_enabled') =>
                   resp'.op = "DisableEncryption"
             /\ (resp'.op \in {"Write", "Read", "Sync", "Status"} \/ resp'.type = "error") =>
                   repo_path' = repo_path /\ encryption_enabled' = encryption_enabled
             /\ resp'.op = "Init" => encryption_enabled' = encryption_enabled]_vars

\* C34 witness: an Init succeeded in a session whose flag is true.
C34_Witness ==
    /\ resp.op = "Init"
    /\ resp.type = "success"
    /\ IsSome(repo_path)
    /\ encryption_enabled

WriteSucceeded == resp'.op = "Write" /\ resp'.type = "success"
WrittenDocument == Deserialize(Unwrap(resp'.req)).val

\* C35: the file a successful Write leaves is decided by the encryption flag
\* of the session at that moment and by nothing the file held before: with
\* the flag true it is the envelope, encrypted = true, of the written
\* document under the key in the Keychain; with the flag false it is the
\* written document in plain text, also where the file was an envelope
\* before.  The Write leaves the flag as it was.
C35_WriteShapeFollowsFlag ==
    [][WriteSucceeded =>
          /\ encryption_enabled' = encryption_enabled
          /\ IF encryption_enabled
             THEN /\ Enveloped(FileAfter)
                  /\ IsSome(keychain)
                  /\ FileAfter = Some(EnvelopeOf(WrittenDocument,
                                       B64Decode(Unwrap(keychain)).val, Nonce(1)))
             ELSE /\ Plain(FileAfter)
                  /\ FileAfter = Some(WrittenText)]_vars

\* A Write in a session whose flag is false, with the key still in the
\* Keychain, has put plain text over the envelope the Write before it had
\* committed.
C35_Witness ==
    /\ resp.op = "Write" /\ resp.type = "success"
    /\ ~encryption_enabled
    /\ IsSome(keychain)
    /\ OpenTree
    /\ Len(RepoTree.commits) = 2
    /\ Enveloped(RepoTree.commits[1].blob)
    /\ ~Enveloped(BookmarksOnDisk)
    /\ BookmarksOnDisk = RepoTree.commits[2].blob

KeyStep == resp'.op \in {"EnableEncryption", "DisableEncryption"}

\* Nothing staged, committed or pushed: every tree has the commits and the
\* index it had, and the remote its branch.
HistoryKept ==
    /\ DOMAIN wt' = DOMAIN wt
    /\ \A d \in DOMAIN wt :
          /\ wt'[d].commits = wt[d].commits
          /\ wt'[d].index = wt[d].index
    /\ remote' = remote

\* A successful EnableEncryption over a plaintext file that is committed.
EnabledOverCommitted ==
    /\ resp'.op = "EnableEncryption" /\ resp'.type = "success"
    /\ OpenTree
    /\ IsSome(BookmarksOnDisk)
    /\ ~Enveloped(BookmarksOnDisk)
    /\ TipBlob(RepoTree.commits) = BookmarksOnDisk

\* The state EnableEncryption left: the flag set, the file an envelope, the
\* tip commit still the plaintext version.
PlaintextTip ==
    /\ encryption_enabled
    /\ OpenTree
    /\ Enveloped(BookmarksOnDisk)
    /\ IsSome(TipBlob(RepoTree.commits))
    /\ ~Enveloped(TipBlob(RepoTree.commits))

TipMoved == TipBlob(wt'[RepoDir].commits) # TipBlob(RepoTree.commits)
WriteCommitted ==
    /\ resp'.op = "Write"
    /\ resp'.type = "success" \/ resp'.code = Some("ERR_GIT_PUSH")
SyncSucceeded == resp'.op = "Sync" /\ resp'.type = "success"

EnableLeavesTreeDirty ==
    EnabledOverCommitted =>
        /\ Enveloped(FileAfter)
        /\ ~is_clean(wt'[RepoDir])
        /\ TipBlob(wt'[RepoDir].commits) = BookmarksOnDisk

\* C36 as stated: EnableEncryption and DisableEncryption rewrite the file
\* and stage, commit and push nothing; after a successful EnableEncryption
\* over a committed plaintext file the tree is not clean, and the tip commit
\* holds the plaintext version until the next successful Write: no other
\* step moves the tip.
C36_TipUntilSuccessfulWrite ==
    [][/\ KeyStep => HistoryKept
       /\ EnableLeavesTreeDirty
       /\ (PlaintextTip /\ TipMoved) => WriteSucceeded]_vars

\* C36 amended: EnableEncryption and DisableEncryption rewrite the file and
\* stage, commit and push nothing; after a successful EnableEncryption over
\* a committed plaintext file the tree is not clean, and the tip commit
\* holds the plaintext version until the next Write that commits, be it
\* successful or failed at the push, or the next successful Sync.
C36_TipUntilCommitOrSync ==
    [][/\ KeyStep => HistoryKept
       /\ EnableLeavesTreeDirty
       /\ (PlaintextTip /\ TipMoved) => (WriteCommitted \/ SyncSucceeded)]_vars

\* EnableEncryption has succeeded over a committed plaintext file: the file
\* is an envelope, the tip commit is not, the tree is not clean.
C36_Witness ==
    /\ resp.op = "EnableEncryption" /\ resp.type = "success"
    /\ PlaintextTip
    /\ ~is_clean(RepoTree)
    /\ RepoTree.index = TipBlob(RepoTree.commits)

FailedLate(r) ==
    r.op = "Write" /\ r.code \in {Some("ERR_GIT_PUSH"), Some("ERR_GIT_COMMIT")}
ReadStep == resp'.op = "Read"

\* The file holds the document of the Write: read back under the flag of
\* the session, with the Keychain answering, it is that document.
HoldsNewDocument ==
    /\ IsSome(FileAfter)
    /\ read_from_file_with_encryption(FileAfter, encryption_enabled, macos,
                                      keychain', TRUE).ok
    /\ read_from_file_with_encryption(FileAfter, encryption_enabled, macos,
                                      keychain', TRUE).val = WrittenDocument
NewCommitIsTip ==
    /\ WriteTree.commits = Append(RepoTree.commits, WriteTree.commits[Len(WriteTree.commits)])
    /\ TipBlob(WriteTree.commits) = FileAfter
    /\ WriteTree.commits[Len(WriteTree.commits)].parents = Tip(RepoTree.commits)

\* C37: a Write that fails late is not rolled back.  Answered ERR_GIT_PUSH,
\* it leaves the new document in the storage file and a new commit, which
\* holds that file, as the tip of the branch; answered ERR_GIT_COMMIT, it
\* leaves the new document in the storage file and the commits as they
\* were.  A Read that follows either returns the new document.
C37_LateFailureNotRolledBack ==
    [][/\ (resp'.op = "Write" /\ resp'.code = Some("ERR_GIT_PUSH")) =>
             HoldsNewDocument /\ NewCommitIsTip
       /\ (resp'.op = "Write" /\ resp'.code = Some("ERR_GIT_COMMIT")) =>
             HoldsNewDocument /\ NoCommit
       /\ (FailedLate(resp) /\ ReadStep) =>
             /\ resp'.type = "success"
             /\ resp'.data = Some(Serialize(Deserialize(Unwrap(resp.req)).val))]_vars

\* A Read has followed a Write that failed at the push, over a file that
\* held another document before that Write.
C37_Witness ==
    /\ resp.op = "Read" /\ resp.type = "success"
    /\ OpenTree
    /\ Len(RepoTree.commits) = 2
    /\ RepoTree.commits[1].blob # RepoTree.commits[2].blob
    /\ IsSome(remote) /\ Unwrap(remote) # RepoTree.commits
    /\ BookmarksOnDisk = RepoTree.commits[2].blob
    /\ resp.data = Some(Serialize(read_from_file(BookmarksOnDisk).val))

\* Every commit but the first has the commit before it as its only parent.
LinearChain(commits) ==
    \A i \in DOMAIN commits :
        commits[i].parents = IF i = 1 THEN None ELSE Some(commits[i - 1])

VersionCheck(d) ==
    IF d.jsonapi.version # "1.1" THEN Err("Invalid JSON API version") ELSE Ok(Unit)
PrimaryIdCheck(d, i) ==
    IF \E h \in 1..(i - 1) : d.data[h].id = d.data[i].id
    THEN Err("Duplicate resource ID") ELSE Ok(Unit)
IncludedIdCheck(d, j) ==
    IF \/ \E h \in 1..Len(d.data) : d.data[h].id = IncludedList(d)[j].id
       \/ \E h \in 1..(j - 1) : IncludedList(d)[h].id = IncludedList(d)[j].id
    THEN Err("Duplicate resource ID") ELSE Ok(Unit)
ChecksInOrder(d) ==
    [k \in 1..(1 + 2 * Len(d.data) + Len(IncludedList(d))) |->
        IF k = 1 THEN VersionCheck(d)
        ELSE IF k <= 1 + 2 * Len(d.data)
        THEN IF k % 2 = 0 THEN CheckFields(d.data[k \div 2])
             ELSE PrimaryIdCheck(d, k \div 2)
        ELSE IncludedIdCheck(d, k - 1 - 2 * Len(d.data))]
Violations(d) == { k \in DOMAIN ChecksInOrder(d) : ~ChecksInOrder(d)[k].ok }
FirstViolation(d) ==
    IF Violations(d) = {} THEN Ok(Unit)
    ELSE ChecksInOrder(d)[CHOOSE k \in Violations(d) : \A l \in Violations(d) : k <= l]

\* C39: validate() returns the error of the earliest failing check in the
\* order version, then the primary list in document order with a resource's
\* fields before its identifier, then the included list in document order;
\* whatever fails later in that order does not change the result, and
\* without a failing check the result is Ok.
C39_FirstViolationInOrder ==
    Validated => Unwrap(verdict) = FirstViolation(doc)

\* validate() returned the field error of the second primary resource,
\* which also repeats the identifier of the first: two checks fail, the
\* earlier one is reported.
C39_Witness ==
    /\ Validated
    /\ Len(doc.data) = 2
    /\ doc.jsonapi.version = "1.1"
    /\ CheckFields(doc.data[1]).ok
    /\ ~CheckFields(doc.data[2]).ok
    /\ doc.data[1].id = doc.data[2].id
    /\ Unwrap(verdict) = CheckFields(doc.data[2])
    /\ Unwrap(verdict) # Err("Duplicate resource ID")

\* C40: on the working tree of the session get_last_commit_message never
\* fails: it returns the message of the tip commit, and "(no message)" where
\* there is none, as on a tree just initialized that has no commit yet.
C40_LastCommitMessageNeverFails ==
    OpenTree =>
        /\ get_last_commit_message(RepoTree).ok
        /\ get_last_commit_message(RepoTree).val =
              IF RepoTree.commits = <<>> THEN NoMessage
              ELSE IF Unwrap(Tip(RepoTree.commits)).message = NotUtf8Message THEN NoMessage
              ELSE Unwrap(Tip(RepoTree.commits)).message

====
